---- MODULE Spec2Model ----
(***************************************************************************)
(* Document lifecycle of the document service: OCR ingestion, manual       *)
(* confirmation, search with team scopes, the download proxy and the       *)
(* integrity check, over one graph store and one object store.             *)
(***************************************************************************)
EXTENDS Integers, Sequences, FiniteSets, TLC

(* ------------------------------------------------------------------ *)
(* Bounds of the exploration                                            *)
(* ------------------------------------------------------------------ *)

\* number of messages and requests handled in one run
MaxOps == 3

(* ------------------------------------------------------------------ *)
(* Values                                                               *)
(* ------------------------------------------------------------------ *)

NULL == "null"

DocIds == {"T1", "T2"}
Users == {"u1", "u2"}
SchemaIds == {"s1", "s2"}
ReqDocIds == {"r1", "r2"}

\* master data written by the sync job: the organisational tree
\* e1 (carrera TDI) -> e2 (departamento D1) -> e3 (facultad FCVT); e4 (carrera MED)
SeedEntities ==
    [e \in {"e1", "e2", "e3", "e4"} |->
        CASE e = "e1" -> [type |-> "carrera", code |-> "TDI"]
          [] e = "e2" -> [type |-> "departamento", code |-> "D1"]
          [] e = "e3" -> [type |-> "facultad", code |-> "FCVT"]
          [] OTHER    -> [type |-> "carrera", code |-> "MED"]]

\* the fields of the two schemas (fieldKey -> entityType.key, NULL when none)
SchemaFields ==
    [s \in SchemaIds |->
        IF s = "s1" THEN [k \in {"title", "career", "tutor"} |->
                            CASE k = "career" -> "career"
                              [] k = "tutor" -> "user"
                              [] OTHER -> NULL]
        ELSE [k \in {"title"} |-> NULL]]

\* a guid_ms is a sequence of characters; the vertices the directory sync wrote
\* for the two owners carry the GUID the directory reports for them
SeedGuids == [u \in Users |-> IF u = "u1" THEN <<"U", "-", "1">> ELSE <<"U", "-", "2">>]

Vid(c, k) == <<c, k>>

Edge(c, key, from, to) == [coll |-> c, key |-> key, from |-> from, to |-> to]

SeedEdges ==
    { Edge("belongs_to", "e1_e2", Vid("entities", "e1"), Vid("entities", "e2")),
      Edge("belongs_to", "e2_e3", Vid("entities", "e2"), Vid("entities", "e3")) }

(* ------------------------------------------------------------------ *)
(* Metadata items                                                       *)
(* ------------------------------------------------------------------ *)

NoObj == [id |-> NULL, name |-> NULL, type |-> NULL, display_name |-> NULL, email |-> NULL]

\* One metadata value.  shape: "none" (None), "scalar" (a non-dict), "wrap" (a dict
\* whose "value" is a scalar or null), "wrapobj" (a dict whose "value" is a dict),
\* "bare" (a dict without "value").  val is the scalar "value", obj the dict
\* "value", top the dict's own id/name/type/display_name/email keys.
Item(shape, valid, v, o, t) == [shape |-> shape, is_valid |-> valid, val |-> v, obj |-> o, top |-> t]

Scalar(v) == Item("scalar", "absent", v, NoObj, NoObj)
Wrap(valid, v) == Item("wrap", valid, v, NoObj, NoObj)
WrapTop(valid, v, t) == Item("wrap", valid, v, NoObj, t)
WrapObj(valid, o) == Item("wrapobj", valid, NULL, o, NoObj)
Bare(t) == Item("bare", "absent", NULL, NoObj, t)
NullItem == Item("none", "absent", NULL, NoObj, NoObj)

EmptyMeta == [k \in {} |-> NullItem]

(* ------------------------------------------------------------------ *)
(* State                                                                *)
(* ------------------------------------------------------------------ *)

VARIABLES
    documents,   \* documents collection: _key -> vertex
    edges,       \* every edge collection, one record per edge
    entities,    \* entities collection: _key -> vertex
    dms_users,   \* dms_users collection: set of _key
    user_guid,   \* dms_users collection: _key -> guid_ms, of the vertices that carry one
    objects,     \* object store: object name -> bytes
    audit_downloads, \* audit_downloads collection: the rows in insertion order
    clock,       \* DATE_NOW() of the store: advances with every message or request handled
    resp,        \* the last operation and what its caller received
    replay,      \* the handlers that process one message concurrently, request by request
    jwks,        \* the JWKS cache, its locks, and the requests that are asking for keys
    consumer     \* the task of the OCR consumer and what the shutdown asked of it

vars == <<documents, edges, entities, dms_users, user_guid, objects, audit_downloads, clock, resp, replay,
          jwks, consumer>>

db == <<documents, edges, entities, dms_users, user_guid, objects, audit_downloads>>

NoResp == [op |-> "none", caller |-> NULL, doc |-> NULL, code |-> 0]

\* no message is being processed concurrently
NoReplay ==
    [active |-> FALSE, msg |-> NULL, colls |-> {}, pc |-> <<0, 0>>,
     seen |-> <<FALSE, FALSE>>, written |-> <<NULL, NULL>>, last |-> 0]

\* the JWKS URLs of the two token providers, and the requests that need keys
Urls == {"azure", "local"}

Reqs == 1..3

\* no cache entry: _JWKS_CACHE.get(url) is None
NoEntry == [present |-> FALSE, keys |-> 0, expires_at |-> 0]

\* a request that has not called _get_jwks_data yet
IdleReq == [pc |-> "idle", url |-> NULL, entry |-> NoEntry, now |-> 0, code |-> 0, keys |-> 0,
            waited |-> FALSE]

\* empty cache, free locks, no fetch made; time() is 0
NoJwks ==
    [cache |-> [u \in Urls |-> NoEntry], lock |-> [u \in Urls |-> 0],
     req |-> [p \in Reqs |-> IdleReq], now |-> 0, fetches |-> [u \in Urls |-> 0],
     last_ok |-> [u \in Urls |-> FALSE]]

\* the consumer task before lifespan creates it
NoConsumer ==
    [pc |-> "none", start_attempted |-> FALSE, stop_calls |-> 0, cancel_requested |-> FALSE]

Init ==
    /\ replay = NoReplay
    /\ jwks = NoJwks
    /\ consumer = NoConsumer
    /\ documents = [d \in {} |-> NULL]
    /\ edges = SeedEdges
    /\ entities = SeedEntities
    /\ dms_users = Users
    /\ user_guid = SeedGuids
    /\ objects = [o \in {} |-> NULL]
    /\ audit_downloads = <<>>
    /\ clock = 0
    /\ resp = NoResp

(* ------------------------------------------------------------------ *)
(* Graph helpers                                                        *)
(* ------------------------------------------------------------------ *)

\* does the vertex exist in its collection
VertexExists(D, EN, US, v) ==
    CASE v[1] = "documents" -> v[2] \in DOMAIN D
      [] v[1] = "entities" -> v[2] \in DOMAIN EN
      [] v[1] = "dms_users" -> v[2] \in US
      [] v[1] = "meta_schemas" -> v[2] \in SchemaIds
      [] v[1] = "required_documents" -> v[2] \in ReqDocIds
      [] OTHER -> FALSE

\* FOR v IN 1..1 OUTBOUND from colls
Outbound(E, froms, colls) == { e.to : e \in { x \in E : x.coll \in colls /\ x.from \in froms } }

\* FOR v IN 1..2 OUTBOUND doc colls
Outbound1to2(E, from, colls) ==
    LET n1 == Outbound(E, {from}, colls)
    IN  n1 \cup Outbound(E, n1, colls)

(* ------------------------------------------------------------------ *)
(* Object store                                                         *)
(* ------------------------------------------------------------------ *)

Kinds == {"pdf", "json", "text", "pdf_original_path"}

\* stage-validate/<user.id>/<task_id>/<key>_document.<ext>
StagePath(u, d, k) == <<"stage-validate", u, d, k>>

\* no path stored under a storage key
NoPath == <<>>

NoStorage ==
    [pdf_path |-> NoPath, json_path |-> NoPath, text_path |-> NoPath,
     pdf_original_path |-> NoPath, storage_tier |-> NULL, primary_source |-> NULL]

NoManifest ==
    [doc_id |-> NULL, confirmed_by |-> NULL, confirmed_at |-> 0, keep_original |-> FALSE,
     selected_pdf_path |-> NoPath, validated_metadata_sha256 |-> <<>>, pdf_sha256 |-> <<>>]

NoIntegrity == [manifest |-> NoManifest, manifest_signature |-> <<>>]

(* ------------------------------------------------------------------ *)
(* OCR ingestion                                                        *)
(* ------------------------------------------------------------------ *)

\* the owner the upstream system reports for a task (external_document.user.id)
OwnerOf(d) == IF d = "T1" THEN "u1" ELSE "u2"

Msg(t, s, e, r, v, o) ==
    [task_id |-> t, schema_id |-> s, context_entity_id |-> e, required_doc_id |-> r,
     ocr_valid |-> v, has_original |-> o]

\* the messages of the OCR topic: per task one with an invalid field and an
\* original PDF, one with other ids and valid fields, and one without any id
Messages ==
    UNION { { Msg(t, "s1", "e1", "r1", FALSE, TRUE),
              Msg(t, "s2", "e4", "r2", TRUE, FALSE),
              Msg(t, NULL, NULL, NULL, TRUE, FALSE) } : t \in DocIds }

\* the bytes transfer_all_files uploads for one artifact
BytesOf(d, k) == <<k, d>>

transfer_all_files(m) ==
    LET ks == IF m.has_original THEN Kinds ELSE Kinds \ {"pdf_original_path"}
    IN  [k \in Kinds |-> IF k \in ks THEN StagePath(OwnerOf(m.task_id), m.task_id, k) ELSE NoPath]

\* strict validation of the one OCR item (fieldKey "title") against the schema
validate_metadata_strict(schema_id, ocr_valid) ==
    IF schema_id = NULL
    THEN [meta |-> EmptyMeta, warnings |-> 1]
    ELSE [meta |-> [k \in {"title"} |-> Wrap(IF ocr_valid THEN "true" ELSE "false", "ocr")],
          warnings |-> 0]

\* the status rule looking at the fields only
ingest_status_fields_only(v) ==
    IF \E k \in DOMAIN v.meta : v.meta[k].is_valid = "false"
    THEN "attention_required" ELSE "validated"

\* has_invalid_fields or integrity_warnings
ingest_status(v) ==
    IF (\E k \in DOMAIN v.meta : v.meta[k].is_valid = "false") \/ v.warnings > 0
    THEN "attention_required" ELSE "validated"

\* the code of an entity as the naming builder joins it ("" when absent)
safe_code(EN, key) ==
    IF key \in DOMAIN EN /\ EN[key].code # NULL THEN EN[key].code ELSE ""

\* the naming of a document whose message carries no required-document name or
\* code and whose entities carry no name: name_code is "<parent code>-<leaf code>"
\* of the context chain, display_name is name_code followed by the time tag ts
build_context_names(EN, E, entity_id, ts) ==
    LET parents == { v \in Outbound(E, {Vid("entities", entity_id)}, {"belongs_to"}) :
                       v[1] = "entities" /\ v[2] \in DOMAIN EN }
        leaf == safe_code(EN, entity_id)
        code_combo == IF parents # {}
                      THEN LET parent == safe_code(EN, (CHOOSE v \in parents : TRUE)[2])
                           IN  IF parent = "" THEN leaf
                               ELSE IF leaf = "" THEN parent ELSE parent \o "-" \o leaf
                      ELSE leaf
    IN  IF entity_id = NULL \/ entity_id \notin DOMAIN EN
        THEN [display_name |-> "document_" \o ToString(ts), name_code |-> "",
              timestamp_tag |-> ts]
        ELSE [display_name |-> IF code_combo = "" THEN "- " \o ToString(ts)
                               ELSE code_combo \o " - " \o ToString(ts),
              name_code |-> code_combo,
              timestamp_tag |-> ts]

build_document_record(task_id, owner, status, stored_paths, validated_metadata, integrity_warnings, naming) ==
    [owner |-> owner,
     status |-> status,
     validated_metadata |-> validated_metadata,
     integrity_warnings |-> integrity_warnings,
     naming_display_name |-> naming.display_name,
     naming_name_code |-> naming.name_code,
     naming_timestamp_tag |-> naming.timestamp_tag,
     display_name |-> NULL,
     snap_context_name |-> NULL,
     storage |-> [pdf_path |-> stored_paths["pdf"],
                  json_path |-> stored_paths["json"],
                  text_path |-> stored_paths["text"],
                  pdf_original_path |-> stored_paths["pdf_original_path"],
                  storage_tier |-> NULL, primary_source |-> NULL],
     is_locked |-> FALSE,
     is_public |-> FALSE,
     keep_original |-> FALSE,
     integrity |-> NoIntegrity,
     confirmed_by |-> NULL,
     confirmed_at |-> 0]

\* db.collection("documents").insert(record, overwrite=True)
upsert_document(D, key, rec) == (key :> rec) @@ D

\* an edge writer that lets the store choose the key
create_safe_edge_keyless(E, from_id, to_id, collection, edge_key) ==
    E \cup { Edge(collection, edge_key \o "#" \o ToString(Cardinality(E)), from_id, to_id) }

\* an edge writer that inserts under a second key when the key is taken
create_safe_edge_insert_again(E, from_id, to_id, collection, edge_key) ==
    IF \E e \in E : e.coll = collection /\ e.key = edge_key
    THEN E \cup {Edge(collection, edge_key \o "_2", from_id, to_id)}
    ELSE E \cup {Edge(collection, edge_key, from_id, to_id)}

\* UPSERT { _key: @key } INSERT {...} UPDATE { updated_at } IN collection
create_safe_edge(E, from_id, to_id, collection, edge_key) ==
    IF \E e \in E : e.coll = collection /\ e.key = edge_key
    THEN E
    ELSE E \cup {Edge(collection, edge_key, from_id, to_id)}

create_structural_edges(E, task_id, schema_id, context_entity_id, required_doc_id) ==
    LET a == IF schema_id # NULL
             THEN create_safe_edge(E, Vid("documents", task_id), Vid("meta_schemas", schema_id),
                                   "usa_esquema", task_id \o "_" \o schema_id)
             ELSE E
        b == IF context_entity_id # NULL
             THEN create_safe_edge(a, Vid("documents", task_id), Vid("entities", context_entity_id),
                                   "file_located_in", task_id \o "_" \o context_entity_id)
             ELSE a
    IN  IF required_doc_id # NULL
        THEN create_safe_edge(b, Vid("documents", task_id), Vid("required_documents", required_doc_id),
                              "complies_with", task_id \o "_" \o required_doc_id)
        ELSE b

\* what can go wrong while one message is processed: nothing, or an exception
\* raised by the strict validation, by the document upsert or by the first
\* edge upsert
Faults == {"none", "validation", "upsert", "edges"}

\* insert raises for a record whose _key is not a string
insert_raises_never(key) == FALSE

insert_raises(key) == key = NULL

\* the step at which the processing of message m raises under the given fault
failing_step(m, fault, edge_ids) ==
    IF fault = "validation" THEN "validation"
    ELSE IF fault = "upsert" \/ insert_raises(m.task_id) THEN "upsert"
    ELSE IF fault = "edges" /\ edge_ids # {NULL} THEN "edges"
    ELSE "none"

StepOrder == <<"transfer", "validation", "upsert", "edges">>

StepIndex(step) == CHOOSE i \in 1..Len(StepOrder) : StepOrder[i] = step

\* a handler that carries on after a step raised
step_done_regardless(failed, step) == TRUE

\* the step was carried out: nothing raised, or it comes before the one that did
step_done(failed, step) == failed = "none" \/ StepIndex(step) < StepIndex(failed)

\* an except block that logs and raises again
log_and_raise(failed) == IF failed = "none" THEN "stored" ELSE "raised"

\* except Exception: logger.error(...): the exception ends the processing of
\* the message and goes no further
log_and_swallow(failed) == IF failed = "none" THEN "stored" ELSE "swallowed"

\* what the handler leaves for the consumer loop: the message it handled, the
\* step that raised and what became of the exception
IngestResp(m, via, failed) ==
    [op |-> "ingest", caller |-> NULL, doc |-> m.task_id,
     code |-> IF failed = "none" THEN 200 ELSE 500,
     via |-> via, msg |-> m, fault |-> failed, outcome |-> log_and_swallow(failed)]

\* the pipeline: parse, transfer, validate, status, naming, record, upsert, edges
ingest_pipeline(m, fault) ==
    LET paths == transfer_all_files(m)
        failed == failing_step(m, fault, {m.schema_id, m.context_entity_id, m.required_doc_id})
        v == validate_metadata_strict(m.schema_id, m.ocr_valid)
        naming == build_context_names(entities, edges, m.context_entity_id, clock + 1)
        rec == build_document_record(m.task_id, OwnerOf(m.task_id), ingest_status(v), paths,
                                     v.meta, v.warnings, naming)
    IN  /\ clock < MaxOps
        /\ clock' = clock + 1
        /\ objects' = [o \in DOMAIN objects \cup { paths[k] : k \in { x \in Kinds : paths[x] # NoPath } } |->
                          IF \E k \in Kinds : paths[k] = o
                          THEN BytesOf(m.task_id, CHOOSE k \in Kinds : paths[k] = o)
                          ELSE objects[o]]
        /\ documents' = IF step_done(failed, "upsert")
                        THEN upsert_document(documents, m.task_id, rec)
                        ELSE documents
        /\ edges' = IF step_done(failed, "edges")
                    THEN create_structural_edges(edges, m.task_id, m.schema_id,
                                                 m.context_entity_id, m.required_doc_id)
                    ELSE edges
        /\ resp' = IngestResp(m, "pipeline", failed)
        /\ UNCHANGED <<entities, dms_users, user_guid, audit_downloads>>

\* the record the consumer's process_ocr_result builds: no owner, presigned urls
\* instead of stored paths
legacy_document_record(status, validated_metadata, integrity_warnings) ==
    [owner |-> NULL,
     status |-> status,
     validated_metadata |-> validated_metadata,
     integrity_warnings |-> integrity_warnings,
     naming_display_name |-> NULL,
     naming_name_code |-> NULL,
     naming_timestamp_tag |-> 0,
     display_name |-> NULL,
     snap_context_name |-> NULL,
     storage |-> NoStorage,
     is_locked |-> FALSE,
     is_public |-> FALSE,
     keep_original |-> FALSE,
     integrity |-> NoIntegrity,
     confirmed_by |-> NULL,
     confirmed_at |-> 0]

process_ocr_result(m, fault) ==
    LET v == validate_metadata_strict(m.schema_id, m.ocr_valid)
        failed == failing_step(m, fault, {m.schema_id, m.context_entity_id})
        rec == legacy_document_record(ingest_status(v), v.meta, v.warnings)
        a == IF m.schema_id # NULL
             THEN create_safe_edge(edges, Vid("documents", m.task_id), Vid("meta_schemas", m.schema_id),
                                   "usa_esquema", m.task_id \o "_" \o m.schema_id)
             ELSE edges
    IN  /\ clock < MaxOps
        /\ clock' = clock + 1
        /\ documents' = IF step_done(failed, "upsert")
                        THEN upsert_document(documents, m.task_id, rec)
                        ELSE documents
        /\ edges' = IF ~step_done(failed, "edges") THEN edges
                    ELSE IF m.context_entity_id # NULL
                    THEN create_safe_edge(a, Vid("documents", m.task_id),
                                          Vid("entidades", m.context_entity_id),
                                          "pertenece_a", m.task_id \o "_" \o m.context_entity_id)
                    ELSE a
        /\ resp' = IngestResp(m, "consumer", failed)
        /\ UNCHANGED <<entities, dms_users, user_guid, objects, audit_downloads>>

(* ------------------------------------------------------------------ *)
(* Confirmation: helpers                                                *)
(* ------------------------------------------------------------------ *)

USER_ENTITY_TYPES == {"user", "person", "usuario"}

is_user_type(t) == t \in USER_ENTITY_TYPES

looks_like_user_payload(o) == o.display_name # NULL \/ o.email # NULL

map_type_to_collection(t) ==
    CASE t \in {"user", "person"} -> "dms_users"
      [] t \in {"faculty", "career", "department", "facultad", "carrera"} -> "entities"
      [] OTHER -> NULL

\* the schemas reached by 1..1 OUTBOUND doc usa_esquema
get_schema_for_document(E, d) ==
    { v[2] : v \in { x \in Outbound(E, {Vid("documents", d)}, {"usa_esquema"}) :
                        x[1] = "meta_schemas" /\ x[2] \in SchemaIds } }

allowed_keys_from_schema(schema) == DOMAIN SchemaFields[schema]

entity_types_from_schema(schema, key) ==
    IF schema # NULL /\ key \in DOMAIN SchemaFields[schema] THEN SchemaFields[schema][key] ELSE NULL

filter_entity_fields(o) ==
    IF looks_like_user_payload(o)
    THEN [NoObj EXCEPT !.id = o.id, !.display_name = o.display_name, !.email = o.email]
    ELSE [NoObj EXCEPT !.id = o.id, !.name = o.name, !.type = o.type]

extract_metadata_value(o) ==
    CASE o.display_name # NULL -> o.display_name
      [] o.name # NULL -> o.name
      [] o.email # NULL -> o.email
      [] o.id # NULL -> o.id
      [] OTHER -> o.type

\* id, display_name, email of the wrapper itself, when its "value" is null
minimal_of(t) == [NoObj EXCEPT !.id = t.id, !.display_name = t.display_name, !.email = t.email]

sanitize_item(item) ==
    CASE item.shape \in {"scalar", "none"} -> Wrap("absent", item.val)
      [] item.shape \in {"wrap", "wrapobj"} /\ item.is_valid = "false" -> NullItem
      [] item.shape = "wrapobj" ->
            LET normalized == filter_entity_fields(item.obj)
            IN  WrapTop("absent", extract_metadata_value(normalized), normalized)
      [] item.shape = "wrap" /\ item.val = NULL ->
            IF minimal_of(item.top) # NoObj
            THEN WrapTop("absent", extract_metadata_value(minimal_of(item.top)), minimal_of(item.top))
            ELSE NullItem
      [] item.shape = "wrap" -> Wrap("absent", item.val)
      \* a dict without "value": normalized_item = dict(item), plus "value"; the
      \* keys the dict came with, is_valid among them, stay
      [] OTHER -> WrapTop(item.is_valid, extract_metadata_value(item.top), item.top)

\* sanitize_metadata that skips no key
sanitize_metadata_keep_all(raw_data, allowed) ==
    [k \in DOMAIN raw_data |-> sanitize_item(raw_data[k])]

\* allowed is the schema's key set, or every key when the document has no schema
sanitize_metadata(raw_data, allowed) ==
    [k \in DOMAIN raw_data \cap allowed |-> sanitize_item(raw_data[k])]

\* ValidationService._sanitize_metadata of the service module
legacy_sanitize_item(item) ==
    CASE item.shape \in {"scalar", "none"} -> item
      [] item.shape \in {"wrap", "wrapobj"} /\ item.is_valid = "false" -> NullItem
      [] item.shape = "wrapobj" -> Bare(filter_entity_fields(item.obj))
      [] item.shape = "wrap" /\ item.val = NULL ->
            IF minimal_of(item.top) # NoObj THEN Bare(minimal_of(item.top)) ELSE NullItem
      [] item.shape = "wrap" -> Scalar(item.val)
      [] OTHER -> item

legacy_sanitize_metadata(raw_data, allowed) ==
    [k \in DOMAIN raw_data \cap allowed |-> legacy_sanitize_item(raw_data[k])]

\* the id a clean item carries: isinstance(item, dict) and item.get("id")
ItemId(item) == IF item.shape \in {"wrap", "bare"} THEN item.top.id ELSE NULL

\* skip when the entity is 1..1 OUTBOUND doc belongs_to, else UPSERT by (_from, _to)
add_semantic_relation(E, task_id, entity_id, edge_name) ==
    IF Vid("entities", entity_id) \in Outbound(E, {Vid("documents", task_id)}, {"belongs_to"})
    THEN E
    ELSE IF \E e \in E : /\ e.coll = edge_name
                         /\ e.from = Vid("documents", task_id)
                         /\ e.to = Vid("entities", entity_id)
         THEN E
         ELSE E \cup {Edge(edge_name, "ref_" \o task_id \o "_" \o entity_id,
                           Vid("documents", task_id), Vid("entities", entity_id))}

\* the loop over the clean metadata that calls add_semantic_relation
RECURSIVE enrich_graph(_, _, _, _)
enrich_graph(E, task_id, clean, keys) ==
    IF keys = {} THEN E
    ELSE LET k == CHOOSE x \in keys : TRUE
             E1 == IF ItemId(clean[k]) # NULL
                   THEN add_semantic_relation(E, task_id, ItemId(clean[k]), "references")
                   ELSE E
         IN  enrich_graph(E1, task_id, clean, keys \ {k})

(* ------------------------------------------------------------------ *)
(* Confirmation: the service's confirm_validation                       *)
(* ------------------------------------------------------------------ *)

\* RETURN NEW._key of an INSERT without a key
NewKey(EN, US) == "n" \o ToString(Cardinality(DOMAIN EN) + Cardinality(US))

\* INSERT {...} IN dms_users RETURN NEW._key
create_new_user_node(US, key) == US \cup {key}

\* INSERT { name, type } IN <collection> RETURN NEW._key
create_new_entity_node(EN, key, type_str) == (key :> [type |-> type_str, code |-> NULL]) @@ EN

\* a wrapped object with a name and no id gets a node created and its id assigned
RECURSIVE legacy_ensure_entities_exist(_, _, _, _)
legacy_ensure_entities_exist(metadata, EN, US, keys) ==
    IF keys = {} THEN [metadata |-> metadata, entities |-> EN, dms_users |-> US]
    ELSE
      LET k == CHOOSE x \in keys : TRUE
          item == metadata[k]
          o == item.obj
          name == IF o.name # NULL THEN o.name ELSE o.display_name
          new_id == NewKey(EN, US)
      IN  IF item.shape = "wrapobj" /\ o.id = NULL /\ name # NULL
          THEN IF o.type = NULL \/ o.type \in {"user", "person", "usuario"}
               THEN legacy_ensure_entities_exist(
                        [metadata EXCEPT ![k].obj = [o EXCEPT !.id = new_id, !.type = "user",
                                                              !.display_name = name]],
                        EN, create_new_user_node(US, new_id), keys \ {k})
               ELSE legacy_ensure_entities_exist(
                        [metadata EXCEPT ![k].obj.id = new_id],
                        create_new_entity_node(EN, new_id, o.type), US, keys \ {k})
          ELSE legacy_ensure_entities_exist(metadata, EN, US, keys \ {k})

\* ValidationService.confirm_validation(task_id, payload): the caller of the
\* endpoint is not a parameter of the method
confirm_validation(task_id, payload, caller) ==
    LET ens == legacy_ensure_entities_exist(payload.metadata, entities, dms_users,
                                            DOMAIN payload.metadata)
        schemas == IF task_id \in DOMAIN documents
                   THEN get_schema_for_document(edges, task_id) ELSE {}
    IN  \E schema \in (IF schemas = {} THEN {NULL} ELSE schemas) :
          LET allowed == IF schema = NULL THEN DOMAIN ens.metadata
                         ELSE allowed_keys_from_schema(schema)
              clean == legacy_sanitize_metadata(ens.metadata, allowed)
          IN  /\ clock < MaxOps
              /\ clock' = clock + 1
              /\ entities' = ens.entities
              /\ dms_users' = ens.dms_users
              /\ UNCHANGED user_guid
              /\ documents' = IF task_id \in DOMAIN documents
                              THEN [documents EXCEPT ![task_id] =
                                      [@ EXCEPT !.validated_metadata = clean,
                                                !.status = "confirmed",
                                                !.integrity_warnings = 0,
                                                !.is_locked = TRUE]]
                              ELSE documents
              /\ edges' = enrich_graph(edges, task_id, clean, DOMAIN clean)
              /\ resp' = [op |-> "confirm", caller |-> caller, doc |-> task_id, code |-> 200,
                          error |-> "none", via |-> "service", display_name |-> NULL,
                          keep_original |-> FALSE, calls |-> <<>>]
              /\ UNCHANGED <<objects, audit_downloads>>

(* ------------------------------------------------------------------ *)
(* Confirmation: repository, archive, entities and integrity services   *)
(* ------------------------------------------------------------------ *)

\* what get_document_snapshot returns of a document (no status, no is_locked)
get_document_snapshot(D, doc_id) ==
    [key |-> doc_id,
     naming_name_code |-> D[doc_id].naming_name_code,
     owner_id |-> D[doc_id].owner,
     display_name |-> D[doc_id].display_name,
     snap_context_name |-> D[doc_id].snap_context_name,
     storage |-> D[doc_id].storage]

StorageKeys == {"pdf_path", "json_path", "text_path", "pdf_original_path"}

ArchiveFile(key) ==
    CASE key = "pdf_path" -> "principal.pdf"
      [] key = "json_path" -> "metadata.json"
      [] key = "text_path" -> "extracted.txt"
      [] OTHER -> "original.pdf"

\* archive/<context segments>/<process>/<required doc>/<_key>: the context
\* segment is the code chain of the document's naming ("general" when it has
\* none); the documents of the model have no process and no required-document
\* name or code, hence sin-proceso and sin-documento
build_archive_prefix(doc_snapshot) ==
    <<"archive",
      IF doc_snapshot.naming_name_code = "" THEN "general" ELSE doc_snapshot.naming_name_code,
      "sin-proceso", "sin-documento", doc_snapshot.key>>

ArchivePath(doc_snapshot, key) == Append(build_archive_prefix(doc_snapshot), ArchiveFile(key))

\* the keys of the mapping in the order the loop visits them
PromoteOrder == <<"pdf_path", "json_path", "text_path", "pdf_original_path">>

\* the sequence without its elements that occurred earlier in it
RECURSIVE Distinct(_)
Distinct(seq) ==
    IF seq = <<>> THEN <<>>
    ELSE LET front == Distinct(SubSeq(seq, 1, Len(seq) - 1))
             last == seq[Len(seq)]
         IN  IF \E i \in 1..Len(front) : front[i] = last THEN front ELSE Append(front, last)

\* promote_from_stage that removes a staging source right after copying it
promote_calls_remove_early(doc_snapshot, storage_data) ==
    LET used == SelectSeq(PromoteOrder, LAMBDA k : storage_data[k] # NoPath)
        step(k) == IF storage_data[k][1] = "stage-validate"
                   THEN << [call |-> "copy", src |-> storage_data[k],
                            dst |-> ArchivePath(doc_snapshot, k)],
                           [call |-> "remove", src |-> storage_data[k], dst |-> NoPath] >>
                   ELSE << [call |-> "copy", src |-> storage_data[k],
                            dst |-> ArchivePath(doc_snapshot, k)] >>
    IN  IF Len(used) = 0 THEN <<>>
        ELSE IF Len(used) = 1 THEN step(used[1])
        ELSE IF Len(used) = 2 THEN step(used[1]) \o step(used[2])
        ELSE IF Len(used) = 3 THEN step(used[1]) \o step(used[2]) \o step(used[3])
        ELSE step(used[1]) \o step(used[2]) \o step(used[3]) \o step(used[4])

\* promote_from_stage that removes every source it copied, staged or not
promote_calls_remove_copied(doc_snapshot, storage_data) ==
    LET used == SelectSeq(PromoteOrder, LAMBDA k : storage_data[k] # NoPath)
        copies == [i \in 1..Len(used) |->
                     [call |-> "copy", src |-> storage_data[used[i]],
                      dst |-> ArchivePath(doc_snapshot, used[i])]]
        sources == Distinct([i \in 1..Len(copies) |-> copies[i].src])
    IN  copies \o [i \in 1..Len(sources) |->
                     [call |-> "remove", src |-> sources[i], dst |-> NoPath]]

\* the requests promote_from_stage sends to the object store, in order: one
\* copy_object per stored path, then one remove_object per element of
\* copied_stage_sources
promote_calls(doc_snapshot, storage_data) ==
    LET used == SelectSeq(PromoteOrder, LAMBDA k : storage_data[k] # NoPath)
        copies == [i \in 1..Len(used) |->
                     [call |-> "copy", src |-> storage_data[used[i]],
                      dst |-> ArchivePath(doc_snapshot, used[i])]]
        staged == SelectSeq(copies, LAMBDA cp : cp.src[1] = "stage-validate")
        copied_stage_sources == Distinct([i \in 1..Len(staged) |-> staged[i].src])
    IN  copies \o [i \in 1..Len(copied_stage_sources) |->
                     [call |-> "remove", src |-> copied_stage_sources[i], dst |-> NoPath]]

\* the object store after the calls from the i-th on; copy_object of a missing
\* source raises and ends the promotion (the copies made so far stay),
\* remove_object never does (its exceptions are passed over); done is the
\* number of calls that were carried out
RECURSIVE run_calls(_, _, _)
run_calls(O, calls, i) ==
    IF i > Len(calls) THEN [ok |-> TRUE, objects |-> O, done |-> Len(calls)]
    ELSE IF calls[i].call = "copy"
    THEN IF calls[i].src \notin DOMAIN O
         THEN [ok |-> FALSE, objects |-> O, done |-> i - 1]
         ELSE run_calls((calls[i].dst :> O[calls[i].src]) @@ O, calls, i + 1)
    ELSE run_calls([o \in DOMAIN O \ {calls[i].src} |-> O[o]], calls, i + 1)

\* copies every stored path under the archive prefix, then removes each copied
\* stage-validate source once; ok is FALSE when a copy raised; calls are the
\* requests the object store carried out
promote_from_stage(O, doc_snapshot, storage_data) ==
    LET calls == promote_calls(doc_snapshot, storage_data)
        ran == run_calls(O, calls, 1)
    IN  [ok |-> ran.ok,
         objects |-> ran.objects,
         calls |-> SubSeq(calls, 1, ran.done),
         storage |-> IF ran.ok
                     THEN [k \in DOMAIN storage_data |->
                             IF k \in StorageKeys /\ storage_data[k] # NoPath
                             THEN ArchivePath(doc_snapshot, k)
                             ELSE IF k = "storage_tier" THEN "archive"
                             ELSE storage_data[k]]
                     ELSE storage_data]

\* UsersService.find_or_create_user: the requests carry neither guid_ms nor
\* email, and the service runs without a directory client, so no user is found
find_or_create_user(US, display_name, email, guid_ms) == NULL

\* the metadata keys one after the other, as the payload lists them: a user-like
\* item whose id is not a user gets a user vertex created and its id assigned; a
\* non-user entity must carry an id that exists in its collection, else ValueError
\* (ok = FALSE) with the vertices created so far in place
RECURSIVE ensure_entities_exist(_, _, _, _, _)
ensure_entities_exist(metadata, schema, EN, US, keys) ==
    IF keys = <<>> THEN [ok |-> TRUE, metadata |-> metadata, dms_users |-> US]
    ELSE
      LET k == Head(keys)
          item == metadata[k]
          expected_type == entity_types_from_schema(schema, k)
          wrapped == item.shape = "wrapobj"
          val_obj == IF wrapped THEN item.obj ELSE item.top
          name == IF val_obj.name # NULL THEN val_obj.name ELSE val_obj.display_name
          type_str == IF val_obj.type # NULL THEN val_obj.type ELSE expected_type
          collection == IF map_type_to_collection(type_str) # NULL
                        THEN map_type_to_collection(type_str) ELSE "entities"
          new_id == NewKey(EN, US)
      IN  IF item.shape \in {"scalar", "none"}
          THEN IF is_user_type(expected_type) /\ item.shape = "scalar" /\ item.val # NULL
                  /\ find_or_create_user(US, item.val, NULL, NULL) = NULL
               THEN ensure_entities_exist(
                        [metadata EXCEPT ![k] = Bare([NoObj EXCEPT !.id = new_id, !.type = "user",
                                                                   !.display_name = item.val])],
                        schema, EN, create_new_user_node(US, new_id), Tail(keys))
               ELSE ensure_entities_exist(metadata, schema, EN, US, Tail(keys))
          ELSE IF is_user_type(type_str) \/ looks_like_user_payload(val_obj)
          THEN IF val_obj.id # NULL /\ val_obj.id \in US
               THEN ensure_entities_exist(metadata, schema, EN, US, Tail(keys))
               ELSE LET target == [val_obj EXCEPT !.id = new_id, !.type = "user",
                                                  !.display_name = name]
                    IN  ensure_entities_exist(
                            IF wrapped THEN [metadata EXCEPT ![k].obj = target]
                            ELSE [metadata EXCEPT ![k].top = target],
                            schema, EN, create_new_user_node(US, new_id), Tail(keys))
          ELSE IF val_obj.id = NULL
                  \/ ~VertexExists(documents, EN, US, Vid(collection, val_obj.id))
          THEN [ok |-> FALSE, metadata |-> metadata, dms_users |-> US]
          ELSE ensure_entities_exist(metadata, schema, EN, US, Tail(keys))

hash_json(data) == <<"sha256", data>>

hash_storage_object(O, path) == <<"sha256", O[path]>>

sign(manifest) == <<"hmac-sha256", manifest>>

build_integrity_payload(O, doc_id, validated_metadata, confirmed_by, keep_original, selected_pdf_path, now) ==
    LET manifest == [doc_id |-> doc_id,
                     confirmed_by |-> confirmed_by,
                     confirmed_at |-> now,
                     keep_original |-> keep_original,
                     selected_pdf_path |-> selected_pdf_path,
                     validated_metadata_sha256 |-> hash_json(validated_metadata),
                     pdf_sha256 |-> IF selected_pdf_path # NoPath
                                    THEN hash_storage_object(O, selected_pdf_path)
                                    ELSE <<>>]
    IN  [manifest |-> manifest, manifest_signature |-> sign(manifest)]

\* an UPDATE that takes the snapshot of the name whether or not the name changes
confirm_document_snap_always(D, doc_id, clean_metadata, is_public, display_name, confirmed_by, keep_original, integrity_payload, storage_data, now) ==
    LET d == D[doc_id]
        current_display_name == IF d.display_name # NULL THEN d.display_name
                                ELSE d.naming_display_name
        display_name_changed == display_name # NULL /\ display_name # current_display_name
        original_snap_context_name == IF d.snap_context_name # NULL THEN d.snap_context_name
                                      ELSE current_display_name
        next_snap_context_name == original_snap_context_name
        next_display_name == IF display_name_changed THEN display_name
                             ELSE current_display_name
    IN  [D EXCEPT ![doc_id] =
            [d EXCEPT !.validated_metadata = clean_metadata,
                      !.status = "confirmed",
                      !.integrity_warnings = 0,
                      !.confirmed_at = now,
                      !.confirmed_by = confirmed_by,
                      !.is_public = is_public,
                      !.keep_original = keep_original,
                      !.is_locked = TRUE,
                      !.display_name = next_display_name,
                      !.naming_display_name = next_display_name,
                      !.snap_context_name = next_snap_context_name,
                      !.storage = storage_data,
                      !.integrity = integrity_payload]]

\* an UPDATE that takes the snapshot of the name at every change of name
confirm_document_snap_overwritten(D, doc_id, clean_metadata, is_public, display_name, confirmed_by, keep_original, integrity_payload, storage_data, now) ==
    LET d == D[doc_id]
        current_display_name == IF d.display_name # NULL THEN d.display_name
                                ELSE d.naming_display_name
        display_name_changed == display_name # NULL /\ display_name # current_display_name
        original_snap_context_name == IF d.snap_context_name # NULL THEN d.snap_context_name
                                      ELSE current_display_name
        next_snap_context_name == IF display_name_changed THEN current_display_name
                                  ELSE d.snap_context_name
        next_display_name == IF display_name_changed THEN display_name
                             ELSE current_display_name
    IN  [D EXCEPT ![doc_id] =
            [d EXCEPT !.validated_metadata = clean_metadata,
                      !.status = "confirmed",
                      !.integrity_warnings = 0,
                      !.confirmed_at = now,
                      !.confirmed_by = confirmed_by,
                      !.is_public = is_public,
                      !.keep_original = keep_original,
                      !.is_locked = TRUE,
                      !.display_name = next_display_name,
                      !.naming_display_name = next_display_name,
                      !.snap_context_name = next_snap_context_name,
                      !.storage = storage_data,
                      !.integrity = integrity_payload]]

\* the single UPDATE of ValidationRepository.confirm_document
confirm_document(D, doc_id, clean_metadata, is_public, display_name, confirmed_by, keep_original, integrity_payload, storage_data, now) ==
    LET d == D[doc_id]
        current_display_name == IF d.display_name # NULL THEN d.display_name
                                ELSE d.naming_display_name
        display_name_changed == display_name # NULL /\ display_name # current_display_name
        original_snap_context_name == IF d.snap_context_name # NULL THEN d.snap_context_name
                                      ELSE current_display_name
        next_snap_context_name == IF display_name_changed THEN original_snap_context_name
                                  ELSE d.snap_context_name
        next_display_name == IF display_name_changed THEN display_name
                             ELSE current_display_name
    IN  [D EXCEPT ![doc_id] =
            [d EXCEPT !.validated_metadata = clean_metadata,
                      !.status = "confirmed",
                      !.integrity_warnings = 0,
                      !.confirmed_at = now,
                      !.confirmed_by = confirmed_by,
                      !.is_public = is_public,
                      !.keep_original = keep_original,
                      !.is_locked = TRUE,
                      !.display_name = next_display_name,
                      !.naming_display_name = next_display_name,
                      !.snap_context_name = next_snap_context_name,
                      !.storage = storage_data,
                      !.integrity = integrity_payload]]

(* ------------------------------------------------------------------ *)
(* Confirmation by the owner: PATCH /{doc_id}/metadata/confirm          *)
(* ------------------------------------------------------------------ *)

Obj(id, name, type) == [NoObj EXCEPT !.id = id, !.name = name, !.type = type]

\* the confirmation requests of the clients; order is the order of the keys
\* in the JSON body
ConfirmRequests ==
    { [metadata |-> [k \in {"title"} |-> Scalar("t1")], order |-> <<"title">>,
       display_name |-> NULL, is_public |-> FALSE, keep_original |-> FALSE],
      [metadata |-> [k \in {"title", "career"} |->
                        IF k = "title" THEN Scalar("t2")
                        ELSE WrapObj("true", Obj("e4", "Medicina", "carrera"))],
       order |-> <<"title", "career">>,
       display_name |-> "Acta", is_public |-> TRUE, keep_original |-> TRUE],
      [metadata |-> [k \in {"tutor", "career"} |->
                        IF k = "tutor" THEN WrapObj("true", [NoObj EXCEPT !.display_name = "Ana"])
                        ELSE WrapObj("true", Obj(NULL, "Nueva", "carrera"))],
       order |-> <<"tutor", "career">>,
       display_name |-> "Otro", is_public |-> TRUE, keep_original |-> FALSE],
      [metadata |-> [k \in {"career"} |->
                        Item("bare", "true", NULL, NoObj, Obj("e4", "Medicina", "carrera"))],
       order |-> <<"career">>,
       display_name |-> "Otro", is_public |-> FALSE, keep_original |-> FALSE] }

\* what the endpoint answers: the status code, the step that raised ("none"
\* on success), of the request the display_name and keep_original the service
\* was given, and the requests the archive promotion sent to the object store
ConfirmResp(caller, doc_id, code, error, via, display_name, keep_original, calls) ==
    [op |-> "confirm", caller |-> caller, doc |-> doc_id, code |-> code, error |-> error,
     via |-> via, display_name |-> display_name, keep_original |-> keep_original,
     calls |-> calls]

Refuse(caller, doc_id, code, error, payload) ==
    /\ resp' = ConfirmResp(caller, doc_id, code, error, "owner", payload.display_name,
                           payload.keep_original, <<>>)
    /\ UNCHANGED db

\* snapshot, owner check, storage selection, archive promotion, entities,
\* sanitization, integrity manifest, persist, semantic references; the router
\* answers PermissionError with 403, ValueError with 404, anything else with 500
validate_document(doc_id, payload, caller) ==
    /\ clock < MaxOps
    /\ clock' = clock + 1
    /\ IF doc_id \notin DOMAIN documents
       THEN Refuse(caller, doc_id, 404, "not_found", payload)
       ELSE
         LET snapshot == get_document_snapshot(documents, doc_id)
             st == snapshot.storage
             selected == IF payload.keep_original
                         THEN [st EXCEPT !.pdf_path = st.pdf_original_path,
                                         !.primary_source = "original"]
                         ELSE [st EXCEPT !.primary_source = "ocr_pdfa"]
             staged == \E k \in StorageKeys : selected[k] # NoPath /\ selected[k][1] = "stage-validate"
             promoted == IF staged THEN promote_from_stage(objects, snapshot, selected)
                         ELSE [ok |-> TRUE, objects |-> objects, storage |-> selected,
                               calls |-> <<>>]
             schemas == get_schema_for_document(edges, doc_id)
         IN  IF snapshot.owner_id # caller
             THEN Refuse(caller, doc_id, 403, "permission", payload)
             ELSE IF payload.keep_original /\ st.pdf_original_path = NoPath
             THEN Refuse(caller, doc_id, 404, "original", payload)
             ELSE IF ~promoted.ok
             THEN /\ objects' = promoted.objects
                  /\ resp' = ConfirmResp(caller, doc_id, 500, "promotion", "owner",
                                         payload.display_name, payload.keep_original,
                                         promoted.calls)
                  /\ UNCHANGED <<documents, edges, entities, dms_users, user_guid, audit_downloads>>
             ELSE
               \E schema \in (IF schemas = {} THEN {NULL} ELSE schemas), read_ok \in BOOLEAN :
                 LET ens == ensure_entities_exist(payload.metadata, schema, entities, dms_users,
                                                  payload.order)
                     allowed == IF schema = NULL THEN DOMAIN ens.metadata
                                ELSE allowed_keys_from_schema(schema)
                     clean == sanitize_metadata(ens.metadata, allowed)
                     integrity == build_integrity_payload(promoted.objects, doc_id, clean, caller,
                                      payload.keep_original, promoted.storage.pdf_path, clock + 1)
                 IN  IF ~ens.ok
                     THEN /\ objects' = promoted.objects
                          /\ dms_users' = ens.dms_users
                          /\ UNCHANGED user_guid
                          /\ resp' = ConfirmResp(caller, doc_id, 404, "entities", "owner",
                                                 payload.display_name, payload.keep_original,
                                                 promoted.calls)
                          /\ UNCHANGED <<documents, edges, entities, audit_downloads>>
                     \* _hash_storage_object: get_object of the selected PDF raises
                     ELSE IF ~read_ok /\ promoted.storage.pdf_path # NoPath
                     THEN /\ objects' = promoted.objects
                          /\ dms_users' = ens.dms_users
                          /\ UNCHANGED user_guid
                          /\ resp' = ConfirmResp(caller, doc_id, 500, "integrity", "owner",
                                                 payload.display_name, payload.keep_original,
                                                 promoted.calls)
                          /\ UNCHANGED <<documents, edges, entities, audit_downloads>>
                     ELSE /\ objects' = promoted.objects
                          /\ dms_users' = ens.dms_users
                          /\ UNCHANGED user_guid
                          /\ documents' = confirm_document(documents, doc_id, clean, payload.is_public,
                                              payload.display_name, caller, payload.keep_original,
                                              integrity, promoted.storage, clock + 1)
                          /\ edges' = enrich_graph(edges, doc_id, clean, DOMAIN clean)
                          /\ resp' = ConfirmResp(caller, doc_id, 200, "none", "owner",
                                                 payload.display_name, payload.keep_original,
                                                 promoted.calls)
                          /\ UNCHANGED <<entities, audit_downloads>>

(* ------------------------------------------------------------------ *)
(* Permission scopes                                                    *)
(* ------------------------------------------------------------------ *)

\* a team code "PREFIX:code" is the pair <<prefix, code>>; "*" is <<"*">>
STAR == <<"*">>

\* every team code of the model, in the order Python sorts the strings
\* "*" < "CARR:999" < "CARR:TDI" < "DEP:D1" < "FAC:FCVT"
TeamOrder == << STAR, <<"CARR", "999">>, <<"CARR", "TDI">>, <<"DEP", "D1">>, <<"FAC", "FCVT">> >>

Range(seq) == { seq[i] : i \in DOMAIN seq }

\* sorted(set(a) | set(b))
sorted_union(a, b) == SelectSeq(TeamOrder, LAMBDA t : t \in Range(a) \cup Range(b))

type_map(prefix) ==
    CASE prefix = "CARR" -> "carrera"
      [] prefix = "FAC" -> "facultad"
      [] prefix = "DEP" -> "departamento"
      [] OTHER -> NULL

\* the (type, code) pairs of the team codes that have a known prefix
team_criteria(allowed_teams) ==
    { <<type_map(t[1]), t[2]>> : t \in { x \in Range(allowed_teams) : Len(x) = 2 /\ type_map(x[1]) # NULL } }

\* SearchService._resolve_team_codes_to_uuids: every entity matching a criterion
resolve_team_codes_to_uuids(EN, allowed_teams) ==
    IF allowed_teams = <<>> \/ STAR \in Range(allowed_teams) THEN {}
    ELSE { e \in DOMAIN EN : <<EN[e].type, EN[e].code>> \in team_criteria(allowed_teams) }

\* the scope lists the permission store holds for a caller:
\* dms.document.read, dms.workflow.approve, dms.workflow.reject
Scopes(r, a, j) == [read |-> r, approve |-> a, reject |-> j]

ScopeProfiles ==
    { Scopes(<<>>, <<>>, <<>>),
      Scopes(<< <<"CARR", "TDI">> >>, <<>>, <<>>),
      Scopes(<< STAR >>, << STAR >>, <<>>),
      Scopes(<< <<"CARR", "999">> >>, <<>>, << <<"CARR", "999">> >>),
      Scopes(<< <<"FAC", "FCVT">> >>, << <<"DEP", "D1">> >>, << <<"DEP", "D1">>, <<"CARR", "TDI">> >>),
      Scopes(<< <<"DEP", "D1">> >>, << <<"FAC", "FCVT">> >>, <<>>),
      Scopes(<<>>, <<>>, << STAR >>) }

(* ------------------------------------------------------------------ *)
(* Search: GET /documents                                               *)
(* ------------------------------------------------------------------ *)

VERIFICATION_STATUSES == {"attention_required"}

\* the dependency falling back to the read scopes when the caller has no
\* workflow scope
resolve_status_and_teams_read_fallback(status_param, read_teams, approve_teams, reject_teams) ==
    LET status == IF status_param = NULL THEN "attention_required" ELSE status_param
        workflow == sorted_union(approve_teams, reject_teams)
        teams == IF status \in VERIFICATION_STATUSES /\ workflow # <<>> THEN workflow ELSE read_teams
    IN  IF status \in VERIFICATION_STATUSES
           /\ (STAR \in Range(approve_teams) \/ STAR \in Range(reject_teams))
        THEN [code |-> 200, status |-> status, teams |-> << STAR >>]
        ELSE IF STAR \in Range(teams)
        THEN [code |-> 200, status |-> status, teams |-> << STAR >>]
        ELSE IF teams = <<>>
        THEN [code |-> 403, status |-> status, teams |-> <<>>]
        ELSE [code |-> 200, status |-> status, teams |-> teams]

\* the dependency that fixes the status and the allowed teams of a search
resolve_status_and_teams(status_param, read_teams, approve_teams, reject_teams) ==
    LET status == IF status_param = NULL THEN "attention_required" ELSE status_param
        allowed_workflow_teams == sorted_union(approve_teams, reject_teams)
    IN  IF status \in VERIFICATION_STATUSES
        THEN IF STAR \in Range(approve_teams) \/ STAR \in Range(reject_teams)
             THEN [code |-> 200, status |-> status, teams |-> << STAR >>]
             ELSE IF allowed_workflow_teams = <<>>
             THEN [code |-> 403, status |-> status, teams |-> <<>>]
             ELSE [code |-> 200, status |-> status, teams |-> allowed_workflow_teams]
        ELSE IF STAR \in Range(read_teams)
             THEN [code |-> 200, status |-> status, teams |-> << STAR >>]
             ELSE IF read_teams = <<>>
             THEN [code |-> 403, status |-> status, teams |-> <<>>]
             ELSE [code |-> 200, status |-> status, teams |-> read_teams]

\* the traversal with depth 1..3 instead of 1..2
OwnerKeysUpTo3(D, E, EN, US, d) ==
    LET from == {Vid("documents", d)}
        colls == {"file_located_in", "belongs_to"}
        n1 == Outbound(E, from, colls)
        n2 == Outbound(E, n1, colls)
        n3 == Outbound(E, n2, colls)
    IN  { v[2] : v \in { x \in n1 \cup n2 \cup n3 : VertexExists(D, EN, US, x) } }

\* the keys of the existing vertices within 1..2 OUTBOUND hops of the document
\* over file_located_in and belongs_to
OwnerKeys(D, E, EN, US, d) ==
    { v[2] : v \in { x \in Outbound1to2(E, Vid("documents", d), {"file_located_in", "belongs_to"}) :
                        VertexExists(D, EN, US, x) } }

\* FOR entity IN 1..5 OUTBOUND doc file_located_in, belongs_to
RECURSIVE OutboundUpTo(_, _, _, _)
OutboundUpTo(E, froms, colls, n) ==
    IF n = 0 THEN {}
    ELSE LET n1 == Outbound(E, froms, colls)
         IN  n1 \cup OutboundUpTo(E, n1, colls, n - 1)

\* the search that skips the team filter when the resolved key list is empty
search_documents_skip_empty(D, E, EN, US, entity_id, status, allowed_teams) ==
    LET valid_owner_ids == resolve_team_codes_to_uuids(EN, allowed_teams)
        matches == { d \in DOMAIN D :
                       /\ (STAR \notin Range(allowed_teams) /\ valid_owner_ids # {})
                            => OwnerKeys(D, E, EN, US, d) \cap valid_owner_ids # {}
                       /\ status # NULL => D[d].status = status }
    IN  IF allowed_teams = <<>>
        THEN [success |-> FALSE, items |-> {}, total |-> 0]
        ELSE [success |-> TRUE, items |-> matches, total |-> Cardinality(matches)]

\* SearchService.search_documents with page 1 and a page that holds every match
search_documents(D, E, EN, US, entity_id, status, allowed_teams) ==
    LET valid_owner_ids == resolve_team_codes_to_uuids(EN, allowed_teams)
        matches == { d \in DOMAIN D :
                       /\ STAR \notin Range(allowed_teams)
                            => OwnerKeys(D, E, EN, US, d) \cap valid_owner_ids # {}
                       /\ status # NULL => D[d].status = status
                       /\ entity_id # NULL =>
                            \E v \in OutboundUpTo(E, {Vid("documents", d)},
                                                  {"file_located_in", "belongs_to"}, 5) :
                                VertexExists(D, EN, US, v) /\ v[2] = entity_id }
    IN  IF allowed_teams # <<>> /\ STAR \notin Range(allowed_teams) /\ valid_owner_ids = {}
        THEN [success |-> TRUE, items |-> {}, total |-> 0]
        ELSE IF allowed_teams = <<>>
        THEN [success |-> FALSE, items |-> {}, total |-> 0]
        ELSE [success |-> TRUE, items |-> matches, total |-> Cardinality(matches)]

\* the handler: the dependency, then the service
get_documents(caller, scopes, status_param, entity_id) ==
    LET ctx == resolve_status_and_teams(status_param, scopes.read, scopes.approve, scopes.reject)
        found == search_documents(documents, edges, entities, dms_users, entity_id,
                                  ctx.status, ctx.teams)
    IN  /\ clock < MaxOps
        /\ clock' = clock + 1
        /\ resp' = [op |-> "search", caller |-> caller, doc |-> NULL,
                    code |-> IF ctx.code = 403 THEN 403 ELSE IF found.success THEN 200 ELSE 500,
                    scopes |-> scopes, status_param |-> status_param, status |-> ctx.status,
                    teams |-> ctx.teams, entity_id |-> entity_id,
                    items |-> IF ctx.code = 403 THEN {} ELSE found.items,
                    total |-> IF ctx.code = 403 THEN 0 ELSE found.total]
        /\ UNCHANGED db

(* ------------------------------------------------------------------ *)
(* Download proxy: GET /storage/proxy/{object_path}                     *)
(* ------------------------------------------------------------------ *)

\* context.utils.resolve_team_codes: the FIRST entity matching each criterion
resolve_team_codes(EN, allowed_teams) ==
    IF allowed_teams = <<>> \/ STAR \in Range(allowed_teams) THEN {}
    ELSE { CHOOSE e \in DOMAIN EN : <<EN[e].type, EN[e].code>> = c :
             c \in { x \in team_criteria(allowed_teams) :
                       \E e \in DOMAIN EN : <<EN[e].type, EN[e].code>> = x } }

\* the documents whose storage.pdf_path is one of the candidate forms of the path
\* (storage.path, file_path and original_path are keys no writer sets)
get_document_by_storage_paths(D, object_path) ==
    { d \in DOMAIN D : D[d].storage.pdf_path # NoPath /\ D[d].storage.pdf_path = object_path }

document_in_allowed_teams(D, E, EN, US, doc_id, valid_owner_ids) ==
    OwnerKeys(D, E, EN, US, doc_id) \cap valid_owner_ids # {}

has_document_access(D, E, EN, US, doc_id, user_id, read_teams) ==
    LET valid_owner_ids == resolve_team_codes(EN, read_teams)
    IN  IF D[doc_id].is_public THEN TRUE
        ELSE IF D[doc_id].owner # NULL /\ D[doc_id].owner = user_id THEN TRUE
        ELSE IF STAR \in Range(read_teams) THEN TRUE
        ELSE IF valid_owner_ids = {} THEN FALSE
        ELSE document_in_allowed_teams(D, E, EN, US, doc_id, valid_owner_ids)

\* log_document_download that records no user
log_document_download_anonymous(A, doc_id, user_id, now) ==
    Append(A, [document_id |-> doc_id, user_id |-> NULL, timestamp |-> now])

\* INSERT { document_id, user_id, timestamp: DATE_NOW(), ip_address } INTO audit_downloads
log_document_download(A, doc_id, user_id, now) ==
    Append(A, [document_id |-> doc_id, user_id |-> user_id, timestamp |-> now])

\* what the caller receives, and audit_tasks, the number of log_document_download
\* tasks the handler handed to background_tasks
DownloadResp(caller, read_teams, object_path, doc_id, code, bytes, audit_tasks) ==
    [op |-> "download", caller |-> caller, doc |-> doc_id, code |-> code,
     read_teams |-> read_teams, path |-> object_path, bytes |-> bytes,
     audit_tasks |-> audit_tasks]

\* authorize, open the object, schedule the audit row, stream; the background
\* task runs once the response is sent, and its INSERT may fail (audit_ok)
get_file_via_proxy(object_path, caller, read_teams) ==
    LET found == get_document_by_storage_paths(documents, object_path)
    IN  /\ clock < MaxOps
        /\ clock' = clock + 1
        /\ UNCHANGED <<documents, edges, entities, dms_users, user_guid, objects>>
        /\ IF found = {}
           THEN /\ resp' = DownloadResp(caller, read_teams, object_path, NULL, 404, <<>>, 0)
                /\ UNCHANGED audit_downloads
           ELSE \E doc_id \in found :
                  IF ~has_document_access(documents, edges, entities, dms_users, doc_id,
                                          caller, read_teams)
                  THEN /\ resp' = DownloadResp(caller, read_teams, object_path, doc_id, 403,
                                               <<>>, 0)
                       /\ UNCHANGED audit_downloads
                  ELSE IF object_path \notin DOMAIN objects
                  THEN /\ resp' = DownloadResp(caller, read_teams, object_path, doc_id, 404,
                                               <<>>, 0)
                       /\ UNCHANGED audit_downloads
                  ELSE \E audit_ok \in BOOLEAN :
                       /\ resp' = DownloadResp(caller, read_teams, object_path, doc_id, 200,
                                               objects[object_path], 1)
                       /\ audit_downloads' =
                            IF audit_ok
                            THEN log_document_download(audit_downloads, doc_id, caller, clock + 1)
                            ELSE audit_downloads

(* ------------------------------------------------------------------ *)
(* Integrity verification                                               *)
(* ------------------------------------------------------------------ *)

get_document_integrity_snapshot(D, doc_id) ==
    [owner_id |-> D[doc_id].owner,
     is_public |-> D[doc_id].is_public,
     validated_metadata |-> D[doc_id].validated_metadata,
     storage |-> D[doc_id].storage,
     integrity |-> D[doc_id].integrity]

NoVerdict ==
    [is_valid |-> FALSE, signature_valid |-> FALSE, metadata_hash_valid |-> FALSE,
     pdf_hash_valid |-> FALSE]

\* ok is FALSE when the selected PDF cannot be read from the object store
verify_integrity_payload(O, validated_metadata, storage, integrity) ==
    LET manifest == integrity.manifest
        selected_pdf_path == IF manifest.selected_pdf_path # NoPath
                             THEN manifest.selected_pdf_path ELSE storage.pdf_path
        signature_valid == sign(manifest) = integrity.manifest_signature
        metadata_hash_valid == manifest.validated_metadata_sha256 = hash_json(validated_metadata)
        pdf_hash_valid == manifest.pdf_sha256 =
                            (IF selected_pdf_path # NoPath
                             THEN hash_storage_object(O, selected_pdf_path) ELSE <<>>)
    IN  IF manifest = NoManifest \/ integrity.manifest_signature = <<>>
        THEN [ok |-> TRUE, verdict |-> NoVerdict]
        ELSE IF selected_pdf_path # NoPath /\ selected_pdf_path \notin DOMAIN O
        THEN [ok |-> FALSE, verdict |-> NoVerdict]
        ELSE [ok |-> TRUE,
              verdict |-> [is_valid |-> signature_valid /\ metadata_hash_valid /\ pdf_hash_valid,
                           signature_valid |-> signature_valid,
                           metadata_hash_valid |-> metadata_hash_valid,
                           pdf_hash_valid |-> pdf_hash_valid]]

\* verification is open to everybody
can_verify_anyone(snapshot, caller_id) == TRUE

\* the document is public or the caller is its owner
can_verify(snapshot, caller_id) == snapshot.is_public \/ snapshot.owner_id = caller_id

VerifyResp(caller, doc_id, code, verified, verdict) ==
    [op |-> "verify", caller |-> caller, doc |-> doc_id, code |-> code,
     verified |-> verified, verdict |-> verdict]

verify_document_integrity(doc_id, caller_id) ==
    /\ clock < MaxOps
    /\ clock' = clock + 1
    /\ UNCHANGED db
    /\ IF doc_id \notin DOMAIN documents
       THEN resp' = VerifyResp(caller_id, doc_id, 404, FALSE, NoVerdict)
       ELSE LET snapshot == get_document_integrity_snapshot(documents, doc_id)
                result == verify_integrity_payload(objects, snapshot.validated_metadata,
                                                   snapshot.storage, snapshot.integrity)
            IN  IF ~can_verify(snapshot, caller_id)
                THEN resp' = VerifyResp(caller_id, doc_id, 403, FALSE, NoVerdict)
                ELSE IF ~result.ok
                THEN resp' = VerifyResp(caller_id, doc_id, 500, FALSE, NoVerdict)
                ELSE resp' = VerifyResp(caller_id, doc_id, 200, TRUE, result.verdict)

Ingest == (\E m \in Messages : ingest_pipeline(m, "none")) /\ UNCHANGED <<replay, jwks, consumer>>

IngestLegacy == (\E m \in Messages : process_ocr_result(m, "none")) /\ UNCHANGED <<replay, jwks, consumer>>

ConfirmLegacy ==
    /\ \E d \in DocIds, p \in ConfirmRequests, c \in Users : confirm_validation(d, p, c)
    /\ UNCHANGED <<replay, jwks, consumer>>

Confirm ==
    /\ \E d \in DocIds, p \in ConfirmRequests, c \in Users : validate_document(d, p, c)
    /\ UNCHANGED <<replay, jwks, consumer>>

Search ==
    \E c \in Users, sc \in ScopeProfiles, st \in {NULL, "attention_required", "validated", "confirmed"},
       en \in {NULL, "e2"} :
        get_documents(c, sc, st, en) /\ UNCHANGED <<replay, jwks, consumer>>

Next == Ingest \/ IngestLegacy \/ ConfirmLegacy \/ Confirm

NextSearch == Ingest \/ Confirm \/ Search

SpecSearch == Init /\ [][NextSearch]_vars

\* the object paths clients ask for: the staged and the archived PDF and JSON of
\* each task
DownloadPaths ==
    UNION { { StagePath(OwnerOf(d), d, "pdf"), StagePath(OwnerOf(d), d, "json") }
            \cup UNION { { ArchivePath([key |-> d, naming_name_code |-> c], "pdf_path"),
                           ArchivePath([key |-> d, naming_name_code |-> c], "json_path") } :
                         c \in { build_context_names(SeedEntities, SeedEdges,
                                                     m.context_entity_id, 0).name_code :
                                 m \in Messages } } : d \in DocIds }

ReadScopes == { <<>>, << STAR >>, << <<"CARR", "TDI">> >>, << <<"FAC", "FCVT">> >> }

Download ==
    /\ \E path \in DownloadPaths, c \in Users, r \in ReadScopes : get_file_via_proxy(path, c, r)
    /\ UNCHANGED <<replay, jwks, consumer>>

Verify == (\E d \in DocIds, c \in Users : verify_document_integrity(d, c)) /\ UNCHANGED <<replay, jwks, consumer>>

NextStorage == Ingest \/ Confirm \/ Download \/ Verify

SpecStorage == Init /\ [][NextStorage]_vars

\* ingestion, both confirmations and the verification of the integrity report
NextIntegrity == Ingest \/ ConfirmLegacy \/ Confirm \/ Verify

SpecIntegrity == Init /\ [][NextIntegrity]_vars

Spec == Init /\ [][Next]_vars

(* ------------------------------------------------------------------ *)
(* Properties                                                           *)
(* ------------------------------------------------------------------ *)

\* the step is a confirmation request answered by the service
ConfirmStep == resp'.op = "confirm" /\ clock' # clock

\* the step is the processing of one OCR message
IngestStep == resp'.op = "ingest" /\ clock' # clock

StructuralEdges(c, d) == { e \in edges : e.coll = c /\ e.from = Vid("documents", d) }

\* C1: a confirmation of a document by a caller who is not its owner is refused
\* with a permission error (403) and leaves the document, dms_users, entities,
\* every edge collection and every storage object as they were.
C1_NonOwnerConfirmRefused ==
    [][ (/\ ConfirmStep
         /\ resp'.doc \in DOMAIN documents
         /\ documents[resp'.doc].owner # NULL
         /\ documents[resp'.doc].owner # resp'.caller)
        => (resp'.code = 403 /\ db' = db) ]_vars

\* C2: once a document is confirmed (status confirmed, is_locked), every later
\* confirmation of it is rejected and leaves validated_metadata, integrity,
\* storage, display_name, is_public and confirmed_at unchanged.
C2_ConfirmedAtMostOnce ==
    [][ (/\ ConfirmStep
         /\ resp'.doc \in DOMAIN documents
         /\ documents[resp'.doc].status = "confirmed"
         /\ documents[resp'.doc].is_locked)
        => LET old == documents[resp'.doc]
               new == documents'[resp'.doc]
           IN  /\ resp'.code # 200
               /\ new.validated_metadata = old.validated_metadata
               /\ new.integrity = old.integrity
               /\ new.storage = old.storage
               /\ new.display_name = old.display_name
               /\ new.is_public = old.is_public
               /\ new.confirmed_at = old.confirmed_at ]_vars

\* C3: confirmed is terminal: the ingestion of a message whose task_id names a
\* confirmed document leaves its status, is_locked, validated_metadata, storage
\* and integrity unchanged.
C3_ConfirmedIsTerminal ==
    [][ (/\ IngestStep
         /\ resp'.doc \in DOMAIN documents
         /\ documents[resp'.doc].status = "confirmed")
        => LET old == documents[resp'.doc]
               new == documents'[resp'.doc]
           IN  /\ new.status = old.status
               /\ new.is_locked = old.is_locked
               /\ new.validated_metadata = old.validated_metadata
               /\ new.storage = old.storage
               /\ new.integrity = old.integrity ]_vars

\* C10: after any sequence of ingestions every document has exactly one
\* usa_esquema edge, exactly one file_located_in edge and exactly one
\* complies_with edge.
C10_OneStructuralEdgeEach ==
    \A d \in DOMAIN documents :
        \A c \in {"usa_esquema", "file_located_in", "complies_with"} :
            Cardinality(StructuralEdges(c, d)) = 1

\* the entity keys the caller's allowed teams name: type and code of the entity
\* are those of a team code
TeamEntityKeys(teams) ==
    { e \in DOMAIN entities :
        \E t \in Range(teams) : Len(t) = 2 /\ type_map(t[1]) = entities[e].type /\ t[2] = entities[e].code }

\* an existing entity within one or two OUTBOUND hops of the document over
\* file_located_in and belongs_to whose key is among keys
ReachesWithinTwoHops(d, keys) ==
    \E e1 \in edges :
        /\ e1.coll \in {"file_located_in", "belongs_to"}
        /\ e1.from = Vid("documents", d)
        /\ \/ e1.to[1] = "entities" /\ e1.to[2] \in keys
           \/ \E e2 \in edges :
                /\ e2.coll \in {"file_located_in", "belongs_to"}
                /\ e2.from = e1.to
                /\ e2.to[1] = "entities" /\ e2.to[2] \in keys

TeamRank(t) == CHOOSE i \in DOMAIN TeamOrder : TeamOrder[i] = t

\* seq lists the members of S once each, in ascending order
IsSortedListOf(seq, S) ==
    /\ Range(seq) = S
    /\ \A i, j \in DOMAIN seq : i < j => TeamRank(seq[i]) < TeamRank(seq[j])

C8_SensitiveSearchOnlyOwn ==
    (resp.op = "search" /\ resp.status \in VERIFICATION_STATUSES) =>
        \A d \in resp.items : documents[d].owner = resp.caller

\* the storage paths of a document: pdf_path, json_path, text_path, pdf_original_path
DocumentPaths(d) == { documents[d].storage[k] : k \in StorageKeys } \ {NoPath}

\* the four conditions of the authorization ladder
MayDownload(d, c, read_teams) ==
    \/ documents[d].is_public
    \/ documents[d].owner = c
    \/ STAR \in Range(read_teams)
    \/ ReachesWithinTwoHops(d, TeamEntityKeys(read_teams))

\* C6: a proxy request for an object of document d by caller c is allowed iff d
\* is public, or c owns d, or c's read scopes contain "*", or an entity within
\* 1..2 OUTBOUND hops has a key resolved from c's scopes; a path of no document
\* gives 404; a refusal gives 403 and streams no bytes.
C6_DownloadLadder ==
    resp.op = "download" =>
        LET of == { d \in DOMAIN documents : resp.path \in DocumentPaths(d) }
        IN  /\ of = {} => resp.code = 404
            /\ \A d \in of :
                 IF MayDownload(d, resp.caller, resp.read_teams)
                 THEN resp.code = 200
                 ELSE resp.code = 403 /\ resp.bytes = <<>>

\* C9: the integrity of document d is verified for caller c only if d is public
\* or c is its owner; for a private document and another caller the request is
\* refused with a permission error and carries no verification result.
C9_VerifyOnlyPublicOrOwner ==
    (resp.op = "verify" /\ resp.doc \in DOMAIN documents) =>
        LET d == documents[resp.doc]
        IN  /\ resp.verified => (d.is_public \/ d.owner = resp.caller)
            /\ (~d.is_public /\ d.owner # resp.caller)
                 => (resp.code = 403 /\ ~resp.verified /\ resp.verdict = NoVerdict)

\* another user asks for the verification of a confirmed private document
C9_Witness ==
    /\ resp.op = "verify"
    /\ resp.doc \in DOMAIN documents
    /\ documents[resp.doc].status = "confirmed"
    /\ ~documents[resp.doc].is_public
    /\ documents[resp.doc].owner # resp.caller
    /\ resp.code = 403

(* ------------------------------------------------------------------ *)
(* Replay of a message and the status written by ingestion             *)
(* ------------------------------------------------------------------ *)

\* the step processes again, by the same handler, the message of the step before
ReplayStep ==
    /\ IngestStep
    /\ resp.op = "ingest"
    /\ resp'.msg = resp.msg
    /\ resp'.via = resp.via

\* the edges that leave a document in the structural collections
EdgesOfDocuments(E) ==
    { e \in E : e.from[1] = "documents" /\ e.coll \in {"usa_esquema", "file_located_in",
                                                       "complies_with", "pertenece_a"} }

\* the two records differ at most in the time-stamped parts of the naming
SameApartFromTimeTag(old, new) ==
    new = [old EXCEPT !.naming_display_name = new.naming_display_name,
                      !.naming_timestamp_tag = new.naming_timestamp_tag]

\* C11 (as stated): processing the same message a second time creates no new
\* vertex and no new edge, every structural edge has key = from_key + "_" +
\* to_key, and the documents and the edges after the second run equal those
\* after the first.
C11_ReplayLeavesEverythingEqual ==
    [][ ReplayStep =>
          /\ documents' = documents
          /\ edges' = edges
          /\ entities' = entities /\ dms_users' = dms_users
          /\ \A e \in EdgesOfDocuments(edges') : e.key = e.from[2] \o "_" \o e.to[2] ]_vars

\* C11 (amended): processing the same message a second time creates no new
\* vertex and no new edge, every structural edge has key = from_key + "_" +
\* to_key, the edges are equal, and the document differs from the one of the
\* first run at most in naming.display_name and naming.timestamp_tag, which
\* carry the time of the run.
C11_ReplayEqualApartFromTimeTag ==
    [][ ReplayStep =>
          /\ DOMAIN documents' = DOMAIN documents
          /\ \A d \in DOMAIN documents : SameApartFromTimeTag(documents[d], documents'[d])
          /\ edges' = edges
          /\ entities' = entities /\ dms_users' = dms_users
          /\ \A e \in EdgesOfDocuments(edges') : e.key = e.from[2] \o "_" \o e.to[2] ]_vars

\* a message with a context entity and a schema has been processed twice in a
\* row by the pipeline, at two different times
C11_Witness ==
    /\ resp.op = "ingest" /\ resp.via = "pipeline"
    /\ resp.msg.context_entity_id # NULL /\ resp.msg.schema_id # NULL
    /\ documents[resp.doc].naming_timestamp_tag >= 2
    /\ clock = documents[resp.doc].naming_timestamp_tag
    /\ \A d \in DOMAIN documents : d = resp.doc
    /\ EdgesOfDocuments(edges) # {}

\* C12: the status written by ingestion is attention_required if and only if
\* at least one validated field has is_valid = false or the warning list is
\* non-empty; otherwise it is validated; ingestion writes no other status.
C12_IngestStatusRule ==
    [][ IngestStep =>
          LET d == documents'[resp'.doc]
              has_invalid_fields == \E k \in DOMAIN d.validated_metadata :
                                        d.validated_metadata[k].is_valid = "false"
          IN  /\ d.status \in {"attention_required", "validated"}
              /\ d.status = "attention_required" <=>
                     (has_invalid_fields \/ d.integrity_warnings > 0) ]_vars

\* a message whose fields are all valid but whose schema is unknown has been
\* ingested: a warning and no invalid field
C12_Witness ==
    /\ resp.op = "ingest"
    /\ resp.doc \in DOMAIN documents
    /\ documents[resp.doc].integrity_warnings > 0
    /\ \A k \in DOMAIN documents[resp.doc].validated_metadata :
           documents[resp.doc].validated_metadata[k].is_valid # "false"
    /\ documents[resp.doc].status = "attention_required"

(* ------------------------------------------------------------------ *)
(* What a confirmation persists and what it leaves alone               *)
(* ------------------------------------------------------------------ *)

\* the step is a confirmation that succeeded on an existing document
ConfirmedStep ==
    /\ ConfirmStep
    /\ resp'.code = 200
    /\ resp'.doc \in DOMAIN documents

\* a persisted value that is null, or an object with a "value" entry and no
\* wrapper attribute (is_valid stands for is_valid, source and message)
IsCleanItem(item) ==
    \/ item.shape = "none"
    \/ item.shape = "wrap" /\ item.is_valid = "absent"

\* a non-user entity field of the request without an id, or with an id that is
\* not in the expected collection
HasUnknownEntity(metadata) ==
    \E k \in DOMAIN metadata :
        LET item == metadata[k]
            val_obj == IF item.shape = "wrapobj" THEN item.obj ELSE item.top
        IN  /\ item.shape \in {"wrap", "wrapobj", "bare"}
            /\ val_obj.type \in {"faculty", "career", "department", "facultad", "carrera"}
            /\ val_obj.display_name = NULL /\ val_obj.email = NULL
            /\ (val_obj.id = NULL \/ val_obj.id \notin DOMAIN entities)

\* C13: after a successful confirmation every value of the persisted
\* validated_metadata is null or an object that contains a value entry and none
\* of the wrapper attributes is_valid, source, message, whatever the shape of
\* the submitted item.
C13_PersistedMetadataIsClean ==
    [][ ConfirmedStep =>
          \A k \in DOMAIN documents'[resp'.doc].validated_metadata :
              IsCleanItem(documents'[resp'.doc].validated_metadata[k]) ]_vars

\* C14: no confirmation inserts a vertex into the entities collection: a confirm
\* whose metadata holds a non-user entity field without an id, or with an id
\* absent from the expected collection, is rejected, and the entities are
\* unchanged by every confirmation.
C14_ConfirmNeverInsertsEntity ==
    [][ \A p \in ConfirmRequests, d \in DocIds, c \in Users :
          (confirm_validation(d, p, c) \/ validate_document(d, p, c)) =>
              (/\ entities' = entities
               /\ HasUnknownEntity(p.metadata) => resp'.code # 200) ]_vars

\* the stage-validate objects of the store
StagingObjects(O) == { o \in DOMAIN O : o[1] = "stage-validate" }

\* C15: confirmation is all-or-nothing: when the integrity manifest build fails
\* after archive promotion has copied the artifacts, every staging object that
\* existed before the call still exists, the document equals its pre-confirm
\* value and the caller receives an error.
C15_ConfirmAllOrNothing ==
    [][ (ConfirmStep /\ resp'.error = "integrity") =>
          /\ resp'.code # 200
          /\ documents' = documents
          /\ StagingObjects(objects) \subseteq StagingObjects(objects') ]_vars

\* C16: when a confirm is rejected with the validation error raised while
\* ensuring entities, nothing has been written: no user vertex created, no
\* reference edge added, no storage object copied or removed, document unchanged.
C16_EntityRejectionWritesNothing ==
    [][ (ConfirmStep /\ resp'.error = "entities") =>
          /\ dms_users' = dms_users
          /\ edges' = edges
          /\ objects' = objects
          /\ documents' = documents
          /\ entities' = entities ]_vars

\* C17: a confirm by the owner with keep_original = true on a document whose
\* storage has no pdf_original_path is answered with status 400 and writes no
\* state: the document is not confirmed and nothing is promoted.
C17_MissingOriginalIs400 ==
    [][ (/\ ConfirmStep
         /\ resp'.via = "owner"
         /\ resp'.keep_original
         /\ resp'.doc \in DOMAIN documents
         /\ documents[resp'.doc].owner = resp'.caller
         /\ documents[resp'.doc].storage.pdf_original_path = NoPath)
        => (resp'.code = 400 /\ documents' = documents /\ objects' = objects) ]_vars

(* ------------------------------------------------------------------ *)
(* The names of a confirmed document                                   *)
(* ------------------------------------------------------------------ *)

\* COALESCE(d.display_name, d.naming.display_name)
CurrentName(d) == IF d.display_name # NULL THEN d.display_name ELSE d.naming_display_name

\* the successful confirmation brings no display_name, or the current one
NameUnchangedStep ==
    /\ ConfirmedStep
    /\ \/ resp'.display_name = NULL
       \/ resp'.display_name = CurrentName(documents[resp'.doc])

\* the successful confirmation brings a display_name that is not the current one
NameChangedStep ==
    /\ ConfirmedStep
    /\ resp'.display_name # NULL
    /\ resp'.display_name # CurrentName(documents[resp'.doc])

\* C18 (as stated): a confirmation whose display_name is absent or equal to
\* current leaves the stored display_name, naming.display_name and
\* snap_context_name exactly as they were.
C18_UnchangedNameLeavesAllThree ==
    [][ NameUnchangedStep =>
          LET old == documents[resp'.doc]
              new == documents'[resp'.doc]
          IN  /\ new.display_name = old.display_name
              /\ new.naming_display_name = old.naming_display_name
              /\ new.snap_context_name = old.snap_context_name ]_vars

\* C18 (amended): a confirmation whose display_name is absent or equal to
\* current leaves the current name, naming.display_name and snap_context_name
\* as they were; the stored display_name is as it was or, when the
\* confirmation takes a display_name, holds the current name afterwards (a null
\* display_name is filled from naming.display_name).
C18_UnchangedNameKeepsCurrent ==
    [][ NameUnchangedStep =>
          LET old == documents[resp'.doc]
              new == documents'[resp'.doc]
          IN  /\ CurrentName(new) = CurrentName(old)
              /\ new.naming_display_name = old.naming_display_name
              /\ new.snap_context_name = old.snap_context_name
              /\ new.display_name = IF resp'.via = "owner" THEN CurrentName(old)
                                    ELSE old.display_name ]_vars

\* the owner has confirmed without a display_name a document that had none of
\* its own: the name of the naming block is now its display_name, no snapshot
C18_Witness ==
    /\ resp.op = "confirm" /\ resp.code = 200 /\ resp.via = "owner"
    /\ resp.display_name = NULL
    /\ documents[resp.doc].display_name # NULL
    /\ documents[resp.doc].display_name = documents[resp.doc].naming_display_name
    /\ documents[resp.doc].snap_context_name = NULL

\* C19: a confirmation whose display_name differs from current sets
\* display_name and naming.display_name to the supplied value and sets
\* snap_context_name to the previous current value if and only if
\* snap_context_name was empty before; a snap_context_name that was already
\* set is never overwritten by any later confirmation.
C19_ChangedNameSnapshotsOnce ==
    [][ /\ NameChangedStep =>
            LET old == documents[resp'.doc]
                new == documents'[resp'.doc]
            IN  /\ new.display_name = resp'.display_name
                /\ new.naming_display_name = resp'.display_name
                /\ new.snap_context_name = IF old.snap_context_name = NULL
                                           THEN CurrentName(old)
                                           ELSE old.snap_context_name
        /\ ConfirmStep =>
            \A d \in DOMAIN documents :
                documents[d].snap_context_name # NULL =>
                    documents'[d].snap_context_name = documents[d].snap_context_name ]_vars

\* a document confirmed under a new name with its original PDF as the principal
\* one has been confirmed again, without keep_original, under another new
\* name: the snapshot is still the name the ingestion gave
C19_Witness ==
    /\ resp.op = "confirm" /\ resp.code = 200
    /\ resp.display_name # NULL
    /\ documents[resp.doc].display_name = resp.display_name
    /\ ~documents[resp.doc].keep_original
    /\ documents[resp.doc].storage.pdf_path \in DOMAIN objects
    /\ objects[documents[resp.doc].storage.pdf_path] = BytesOf(resp.doc, "pdf_original_path")
    /\ documents[resp.doc].snap_context_name =
           documents[resp.doc].naming_name_code \o " - "
              \o ToString(documents[resp.doc].naming_timestamp_tag)

(* ------------------------------------------------------------------ *)
(* Integrity manifest: build at confirmation, recompute at verification *)
(* ------------------------------------------------------------------ *)

\* the step verifies the document that the step before confirmed with success,
\* so nothing has changed in between
VerifyAfterConfirmStep ==
    /\ resp.op = "confirm" /\ resp.code = 200
    /\ resp'.op = "verify" /\ clock' # clock
    /\ resp'.doc = resp.doc
    /\ resp'.code = 200

\* C20: for every document that was ingested and then successfully confirmed,
\* with no change in between, verify returns signature_valid, metadata_hash_valid,
\* pdf_hash_valid and is_valid all true.
C20_IntegrityRoundTrip ==
    [][ VerifyAfterConfirmStep =>
          /\ resp'.verdict.signature_valid
          /\ resp'.verdict.metadata_hash_valid
          /\ resp'.verdict.pdf_hash_valid
          /\ resp'.verdict.is_valid ]_vars

(* ------------------------------------------------------------------ *)
(* Two confirmations of one document                                    *)
(* ------------------------------------------------------------------ *)

\* C27: of two confirm requests for the same document exactly one succeeds and
\* the other receives an error. The requests of the model run one after the
\* other, which is one of the interleavings: when the owner's confirmation of a
\* document has succeeded, the next owner-checked confirmation of the same
\* document is answered with an error and leaves the document as the first
\* request wrote it.
C27_SecondConfirmIsRefused ==
    [][ (/\ resp.op = "confirm" /\ resp.via = "owner" /\ resp.code = 200
         /\ ConfirmStep
         /\ resp'.via = "owner"
         /\ resp'.doc = resp.doc)
        => (resp'.code # 200 /\ documents'[resp.doc] = documents[resp.doc]) ]_vars

(* ------------------------------------------------------------------ *)
(* Sanitization against the schema                                      *)
(* ------------------------------------------------------------------ *)

\* the field keys of the schemas the document reaches over usa_esquema; empty
\* when it reaches none
SchemaKeysOf(E, d) == UNION { allowed_keys_from_schema(s) : s \in get_schema_for_document(E, d) }

DownloadStep == resp'.op = "download" /\ clock' # clock

\* old is an initial part of new: no row of old is changed or missing in new
IsPrefix(old, new) ==
    /\ Len(old) <= Len(new)
    /\ \A i \in 1..Len(old) : new[i] = old[i]

\* C29: an authorized download hands exactly one audit append to the
\* background, with the document id and the caller's user id, and the row is
\* written (or its write fails) after the response is fixed: the response is
\* the object's bytes with 200 whether or not the row appears. A 403 or 404
\* request schedules no append and writes no row. No step changes or deletes a
\* row of audit_downloads.
C29_DownloadAudit ==
    [][ /\ IsPrefix(audit_downloads, audit_downloads')
        /\ DownloadStep =>
             IF resp'.code = 200
             THEN /\ resp'.audit_tasks = 1
                  /\ resp'.bytes = objects[resp'.path]
                  /\ \/ audit_downloads' = audit_downloads
                     \/ /\ Len(audit_downloads') = Len(audit_downloads) + 1
                        /\ audit_downloads'[Len(audit_downloads')].document_id = resp'.doc
                        /\ audit_downloads'[Len(audit_downloads')].user_id = resp'.caller
             ELSE /\ resp'.code \in {403, 404}
                  /\ resp'.audit_tasks = 0
                  /\ audit_downloads' = audit_downloads ]_vars

\* two authorized downloads: the audit row of the first was written, the write
\* of the second failed and the caller still received 200 with the bytes
C29_Witness ==
    /\ resp.op = "download" /\ resp.code = 200 /\ resp.bytes # <<>>
    /\ Len(audit_downloads) = 1
    /\ audit_downloads[1].timestamp < clock
    /\ audit_downloads[1].user_id \in Users

(* ------------------------------------------------------------------ *)
(* Tampering with a confirmed document                                  *)
(* ------------------------------------------------------------------ *)

TamperKinds == {"metadata", "bytes", "path", "manifest"}

\* somebody with write access to the store or the bucket changes one thing of
\* the document that was just confirmed: its validated_metadata, the bytes of
\* the object at storage.pdf_path, the value of storage.pdf_path (now the path
\* of the document's JSON artifact) or a field of the manifest
Tamper ==
    \E kind \in TamperKinds :
        LET d == resp.doc
            doc == documents[d]
        IN  /\ resp.op = "confirm" /\ resp.code = 200
            /\ d \in DOMAIN documents
            /\ doc.integrity # NoIntegrity
            /\ doc.storage.pdf_path \in DOMAIN objects
            /\ doc.storage.json_path \in DOMAIN objects
            /\ documents' =
                 CASE kind = "metadata" ->
                        [documents EXCEPT ![d].validated_metadata =
                            [k \in {"title"} |-> Wrap("absent", "forged")]]
                   [] kind = "path" ->
                        [documents EXCEPT ![d].storage.pdf_path = doc.storage.json_path]
                   [] kind = "manifest" ->
                        [documents EXCEPT ![d].integrity.manifest.confirmed_by = "intruder"]
                   [] OTHER -> documents
            /\ objects' = IF kind = "bytes"
                          THEN [objects EXCEPT ![doc.storage.pdf_path] = <<"forged", d>>]
                          ELSE objects
            /\ resp' = [op |-> "tamper", caller |-> NULL, doc |-> d, code |-> 0, kind |-> kind]
            /\ UNCHANGED <<edges, entities, dms_users, user_guid, audit_downloads, clock, replay, jwks, consumer>>

\* ingestion, the owner's confirmation, a change behind the service's back and
\* the verification of the integrity report
NextTamper == Ingest \/ Confirm \/ Tamper \/ Verify

SpecTamper == Init /\ [][NextTamper]_vars

\* the step is the verification, answered with a report, of the document that
\* was just tampered with in the given way
VerifyAfterTamperStep(kind) ==
    /\ resp.op = "tamper" /\ resp.kind = kind
    /\ resp'.op = "verify" /\ clock' # clock
    /\ resp'.doc = resp.doc
    /\ resp'.code = 200

\* the report names the given flag as false and is_valid is the conjunction
TamperDetected(kind, flag) ==
    VerifyAfterTamperStep(kind) =>
        /\ ~resp'.verdict[flag]
        /\ resp'.verdict.is_valid = (/\ resp'.verdict.signature_valid
                                     /\ resp'.verdict.metadata_hash_valid
                                     /\ resp'.verdict.pdf_hash_valid)

\* C21: after a confirmation, a change of validated_metadata makes verify
\* report metadata_hash_valid = false, a change of the bytes at storage.pdf_path
\* or of the value of storage.pdf_path makes it report pdf_hash_valid = false, a
\* change of the manifest makes it report signature_valid = false, and is_valid
\* is the conjunction of the three.
C21_TamperDetected ==
    [][ /\ TamperDetected("metadata", "metadata_hash_valid")
        /\ TamperDetected("bytes", "pdf_hash_valid")
        /\ TamperDetected("path", "pdf_hash_valid")
        /\ TamperDetected("manifest", "signature_valid") ]_vars

(* ------------------------------------------------------------------ *)
(* Archive promotion                                                    *)
(* ------------------------------------------------------------------ *)

\* the archive service is called once more on the document that was just
\* confirmed and lies in the archive, with the storage selection of a
\* confirmation (keep_original or not); the call persists nothing
PromoteAgain ==
    \E keep_original \in BOOLEAN :
        LET d == resp.doc
            snapshot == get_document_snapshot(documents, d)
            st == snapshot.storage
            selected == IF keep_original /\ st.pdf_original_path # NoPath
                        THEN [st EXCEPT !.pdf_path = st.pdf_original_path]
                        ELSE st
            promoted == promote_from_stage(objects, snapshot, selected)
        IN  /\ resp.op = "confirm" /\ resp.via = "owner" /\ resp.code = 200
            /\ d \in DOMAIN documents
            /\ st.storage_tier = "archive"
            /\ objects' = promoted.objects
            /\ resp' = [op |-> "promote", caller |-> NULL, doc |-> d,
                        code |-> IF promoted.ok THEN 200 ELSE 500,
                        given |-> selected, returned |-> promoted.storage,
                        calls |-> promoted.calls]
            /\ UNCHANGED <<documents, edges, entities, dms_users, user_guid, audit_downloads, clock, replay, jwks, consumer>>

\* ingestion, the owner's confirmation and a second promotion
NextArchive == Ingest \/ Confirm \/ PromoteAgain

SpecArchive == Init /\ [][NextArchive]_vars

\* the archive prefix of an archived object path
PrefixOf(path) == SubSeq(path, 1, Len(path) - 1)

IsCanonical(doc_snapshot, storage_data) ==
    \A k \in StorageKeys : storage_data[k] \in {NoPath, ArchivePath(doc_snapshot, k)}

C23_CopiesThenRemovals ==
    [][ (ConfirmStep /\ resp'.via = "owner") =>
          LET calls == resp'.calls
              is(i, what) == calls[i].call = what
          IN  /\ \A i, j \in 1..Len(calls) : (is(i, "copy") /\ is(j, "remove")) => i < j
              /\ \A i, j \in 1..Len(calls) :
                    (is(i, "remove") /\ is(j, "remove") /\ calls[i].src = calls[j].src) => i = j
              /\ \A i \in 1..Len(calls) : is(i, "remove") => calls[i].src[1] = "stage-validate"
              /\ DOMAIN objects \ DOMAIN objects' =
                    { calls[i].src : i \in { j \in 1..Len(calls) : is(j, "remove") } }
              /\ \A i \in 1..Len(calls) :
                    (is(i, "copy") /\ calls[i].src[1] = "stage-validate" /\ resp'.code = 200)
                        => calls[i].src \notin DOMAIN objects' ]_vars

\* a confirmation with keep_original promoted a document whose pdf_path and
\* pdf_original_path named the same staging object: it was copied twice and
\* removed once
C23_Witness ==
    /\ resp.op = "confirm" /\ resp.code = 200 /\ resp.keep_original
    /\ \E i, j, r \in 1..Len(resp.calls) :
          /\ i # j
          /\ resp.calls[i].call = "copy" /\ resp.calls[j].call = "copy"
          /\ resp.calls[i].src = resp.calls[j].src
          /\ resp.calls[i].dst # resp.calls[j].dst
          /\ resp.calls[r].call = "remove" /\ resp.calls[r].src = resp.calls[i].src
          /\ resp.calls[r].src \notin DOMAIN objects

(* ------------------------------------------------------------------ *)
(* The consumer of the OCR topic                                        *)
(* ------------------------------------------------------------------ *)

\* the topic also carries a message without task_id
StreamMessages == Messages \cup { Msg(NULL, "s1", "e1", "r1", TRUE, FALSE) }

\* async for msg in consumer: the loop is left for good when an exception
\* escapes the handler (except Exception / finally: consumer.stop())
consumer_running == ~(resp.op = "ingest" /\ resp.outcome = "raised")

\* consume_ocr_finalized: the next message of the topic goes to process_ocr_result
Consume ==
    /\ \E m \in StreamMessages, fault \in Faults : consumer_running /\ process_ocr_result(m, fault)
    /\ UNCHANGED <<replay, jwks, consumer>>

\* the same loop handing the message to the pipeline
ConsumePipeline ==
    /\ \E m \in StreamMessages, fault \in Faults : consumer_running /\ ingest_pipeline(m, fault)
    /\ UNCHANGED <<replay, jwks, consumer>>

NextStream == Consume \/ ConsumePipeline

SpecStream == Init /\ [][NextStream]_vars

\* the consumer of consumer.py alone; the event loop keeps running its task, so
\* a message that can be taken from the topic is taken
SpecStreamFair == Init /\ [][Consume]_vars /\ WF_vars(Consume)

TransferredPaths(m) == { transfer_all_files(m)[k] : k \in Kinds } \ {NoPath}

\* C25: when the strict validation, or any step before the document upsert,
\* raises while a message is processed, no document vertex and no structural
\* edge is written for its task_id, and the objects transferred to staging are
\* kept.
C25_FailureBeforeUpsertPersistsNothing ==
    [][ (IngestStep /\ resp'.fault \in {"validation", "upsert"}) =>
          /\ documents' = documents
          /\ edges' = edges
          /\ \A o \in DOMAIN objects : o \in DOMAIN objects'
          /\ resp'.via = "pipeline" => TransferredPaths(resp'.msg) \subseteq DOMAIN objects' ]_vars

\* the validation of a message for a task that has no document yet raised in
\* the pipeline: its objects are in staging, no document and no edge is there
C25_Witness ==
    /\ resp.op = "ingest" /\ resp.via = "pipeline" /\ resp.fault = "validation"
    /\ resp.doc # NULL /\ resp.doc \notin DOMAIN documents
    /\ TransferredPaths(resp.msg) # {}
    /\ TransferredPaths(resp.msg) \subseteq DOMAIN objects
    /\ StructuralEdges("usa_esquema", resp.doc) = {}

Procs == {1, 2}

StructuralCollections == <<"usa_esquema", "file_located_in", "complies_with">>

\* the vertex a structural edge of message m points to, NULL when m has no id
\* for it
StructuralTarget(m, coll) ==
    CASE coll = "usa_esquema" ->
            IF m.schema_id = NULL THEN NULL ELSE Vid("meta_schemas", m.schema_id)
      [] coll = "file_located_in" ->
            IF m.context_entity_id = NULL THEN NULL ELSE Vid("entities", m.context_entity_id)
      [] OTHER ->
            IF m.required_doc_id = NULL THEN NULL
            ELSE Vid("required_documents", m.required_doc_id)

\* the requests one handler sends while it processes message m, in order: the
\* uploads of the transfer, has_collection / create_collection / insert for
\* the document, and for every structural edge has_collection /
\* create_collection and the UPSERT, which the store carries out as a lookup
\* of the key followed by an INSERT or an UPDATE
ReplayProgram(m) ==
    LET named == SelectSeq(StructuralCollections, LAMBDA c : StructuralTarget(m, c) # NULL)
        ForEdge(c) == << [req |-> "has", coll |-> c], [req |-> "create", coll |-> c],
                         [req |-> "lookup", coll |-> c], [req |-> "write", coll |-> c] >>
        edge_requests == IF Len(named) = 0 THEN <<>>
                         ELSE IF Len(named) = 1 THEN ForEdge(named[1])
                         ELSE IF Len(named) = 2 THEN ForEdge(named[1]) \o ForEdge(named[2])
                         ELSE ForEdge(named[1]) \o ForEdge(named[2]) \o ForEdge(named[3])
    IN  << [req |-> "transfer", coll |-> NULL],
           [req |-> "has", coll |-> "documents"], [req |-> "create", coll |-> "documents"],
           [req |-> "insert", coll |-> "documents"] >> \o edge_requests

\* pc 0: the handler raised and gave up; pc beyond the program: it has finished
Finished(p) == replay.pc[p] = 0 \/ replay.pc[p] > Len(ReplayProgram(replay.msg))

EdgeKey(m, coll) == m.task_id \o "_" \o StructuralTarget(m, coll)[2]

\* handler p sends its next request
ReplayRequest(p) ==
    LET m == replay.msg
        r == ReplayProgram(m)[replay.pc[p]]
        goto(n) == [replay EXCEPT !.pc[p] = n]
        exists == \E e \in edges : e.coll = r.coll /\ e.key = EdgeKey(m, r.coll)
        paths == transfer_all_files(m)
        naming == build_context_names(entities, edges, m.context_entity_id, clock + 1)
        v == validate_metadata_strict(m.schema_id, m.ocr_valid)
        rec == build_document_record(m.task_id, OwnerOf(m.task_id), ingest_status(v), paths,
                                     v.meta, v.warnings, naming)
    IN  /\ replay.active
        /\ ~Finished(p)
        /\ UNCHANGED <<entities, dms_users, user_guid, audit_downloads, resp>>
        /\ CASE r.req = "transfer" ->
                  /\ objects' = [o \in DOMAIN objects \cup TransferredPaths(m) |->
                                   IF \E k \in Kinds : paths[k] = o
                                   THEN BytesOf(m.task_id, CHOOSE k \in Kinds : paths[k] = o)
                                   ELSE objects[o]]
                  /\ replay' = goto(replay.pc[p] + 1)
                  /\ UNCHANGED <<documents, edges, clock>>
             \* if not db.has_collection(c): db.create_collection(c)
             [] r.req = "has" ->
                  /\ replay' = goto(IF r.coll \in replay.colls THEN replay.pc[p] + 2
                                    ELSE replay.pc[p] + 1)
                  /\ UNCHANGED <<documents, edges, objects, clock>>
             \* create_collection raises when the collection exists by now
             [] r.req = "create" ->
                  /\ replay' = IF r.coll \in replay.colls THEN goto(0)
                               ELSE [goto(replay.pc[p] + 1) EXCEPT !.colls = @ \cup {r.coll}]
                  /\ UNCHANGED <<documents, edges, objects, clock>>
             [] r.req = "insert" ->
                  /\ clock < MaxOps
                  /\ clock' = clock + 1
                  /\ documents' = upsert_document(documents, m.task_id, rec)
                  /\ replay' = [goto(replay.pc[p] + 1) EXCEPT !.written[p] = rec, !.last = p]
                  /\ UNCHANGED <<edges, objects>>
             [] r.req = "lookup" ->
                  /\ replay' = [goto(replay.pc[p] + 1) EXCEPT !.seen[p] = exists]
                  /\ UNCHANGED <<documents, edges, objects, clock>>
             \* the INSERT branch of an UPSERT whose key was taken meanwhile raises
             \* (unique constraint); otherwise the edge is inserted or left as it is
             [] OTHER ->
                  IF ~replay.seen[p] /\ exists
                  THEN /\ replay' = goto(0)
                       /\ UNCHANGED <<documents, edges, objects, clock>>
                  ELSE /\ edges' = create_safe_edge(edges, Vid("documents", m.task_id),
                                                    StructuralTarget(m, r.coll), r.coll,
                                                    EdgeKey(m, r.coll))
                       /\ replay' = goto(replay.pc[p] + 1)
                       /\ UNCHANGED <<documents, objects, clock>>

Replay == (\E p \in Procs : ReplayRequest(p)) /\ UNCHANGED <<jwks, consumer>>

\* two handlers are about to process the same message of task T1, on a store
\* where the documents and edge collections exist already or where none does
InitReplay ==
    /\ documents = [d \in {} |-> NULL]
    /\ edges = SeedEdges
    /\ entities = SeedEntities
    /\ dms_users = Users
    /\ user_guid = SeedGuids
    /\ objects = [o \in {} |-> NULL]
    /\ audit_downloads = <<>>
    /\ clock = 0
    /\ resp = NoResp
    /\ \E m \in { x \in Messages : x.task_id = "T1" },
          colls \in { {}, {"documents", "usa_esquema", "file_located_in", "complies_with"} } :
            replay = [NoReplay EXCEPT !.active = TRUE, !.msg = m, !.colls = colls,
                                       !.pc = <<1, 1>>]
    /\ jwks = NoJwks
    /\ consumer = NoConsumer

SpecReplay == InitReplay /\ [][Replay]_vars

ReferenceRequests ==
    { [metadata |-> [k \in {"title", "career"} |->
                        IF k = "title" THEN Scalar("t1")
                        ELSE WrapObj("true", Obj(e, "Carrera", "carrera"))],
       order |-> <<"title", "career">>,
       display_name |-> NULL, is_public |-> FALSE, keep_original |-> FALSE] : e \in {"e1", "e4"} }

ConfirmReference ==
    /\ \E d \in DocIds, p \in ReferenceRequests : validate_document(d, p, OwnerOf(d))
    /\ UNCHANGED <<replay, jwks, consumer>>

ConfirmReferenceLegacy ==
    /\ \E d \in DocIds, p \in ReferenceRequests : confirm_validation(d, p, OwnerOf(d))
    /\ UNCHANGED <<replay, jwks, consumer>>

NextReferences == Ingest \/ ConfirmReference \/ ConfirmReferenceLegacy

SpecReferences == Init /\ [][NextReferences]_vars

\* the references edges of document d to entity id
ReferencesEdges(E, d, id) ==
    { e \in E : /\ e.coll = "references"
                /\ e.from = Vid("documents", d)
                /\ e.to = Vid("entities", id) }

\* C31: after a successful confirmation of d every persisted metadata value
\* that carries an id has exactly one references edge d -> entities/<id>, except
\* that the entity d is filed in (its file_located_in target) has none; a
\* repeated confirmation never leaves two references edges for one pair
C31_ReferencesEdges ==
    [][ ConfirmedStep =>
          LET d == resp'.doc
              clean == documents'[d].validated_metadata
              located == Outbound(edges', {Vid("documents", d)}, {"file_located_in"})
          IN  \A k \in DOMAIN clean :
                ItemId(clean[k]) # NULL =>
                    IF Vid("entities", ItemId(clean[k])) \in located
                    THEN ReferencesEdges(edges', d, ItemId(clean[k])) = {}
                    ELSE Cardinality(ReferencesEdges(edges', d, ItemId(clean[k]))) = 1 ]_vars

(* ------------------------------------------------------------------ *)
(* User vertices: key and guid_ms                                       *)
(* ------------------------------------------------------------------ *)

\* None or the empty string: what "not guid" accepts
NoGuid == <<>>

\* val.lower() of one character
Lower(ch) == CASE ch = "U" -> "u" [] ch = "A" -> "a" [] OTHER -> ch

\* the characters [a-z0-9_] that occur in the identifiers
KeyChars == {"a", "u", "1", "2", "3", "_"}

\* strip, lower, drop hyphens, drop everything outside [a-z0-9_]
RECURSIVE sanitize_key(_)
sanitize_key(val) ==
    IF val = <<>> THEN ""
    ELSE (IF Lower(Head(val)) \in KeyChars THEN Lower(Head(val)) ELSE "") \o sanitize_key(Tail(val))

\* the same conversion in the users repository; an empty guid raises before it
safe_key_from_guid(guid) == sanitize_key(guid)

\* the users the directory returns (azure_id)
GraphUsers == { <<"U", "-", "1">>, <<"u", "3">>, <<"A", " ", "3">>, <<"-">>, NoGuid }

UserResp(op, code, key) == [op |-> op, caller |-> NULL, doc |-> key, code |-> code]

\* ValueError without azure_id; the store refuses an empty _key; else
\* UPSERT { _key: key } with the document that carries guid_ms
upsert_user_from_graph(azure_id) ==
    LET key == safe_key_from_guid(azure_id)
    IN  /\ clock < MaxOps
        /\ clock' = clock + 1
        /\ IF azure_id = NoGuid \/ key = ""
           THEN /\ resp' = UserResp("upsert_user", 500, NULL)
                /\ UNCHANGED <<dms_users, user_guid>>
           ELSE /\ dms_users' = dms_users \cup {key}
                /\ user_guid' = (key :> azure_id) @@ user_guid
                /\ resp' = UserResp("upsert_user", 200, key)
        /\ UNCHANGED <<documents, edges, entities, objects, audit_downloads>>

\* the sessions of the session store: user_id, the GUID of user_data (azure_id,
\* guid_ms) or of the session when there is one, and the token type
Sessions ==
    { [user_id |-> <<"U", "-", "2">>, guid_ms |-> NoGuid, token_type |-> "azure"],
      [user_id |-> <<"a", "1">>, guid_ms |-> <<"U", "-", "1">>, token_type |-> "local"],
      [user_id |-> <<"a", "2">>, guid_ms |-> NoGuid, token_type |-> "local"],
      [user_id |-> <<"-">>, guid_ms |-> NoGuid, token_type |-> "azure"] }

\* key from guid_ms, else from user_id; an azure session without guid_ms stores
\* user_id as guid_ms; nothing is written for an empty key; errors are logged
sync_user_to_db(session) ==
    LET key == sanitize_key(IF session.guid_ms # NoGuid THEN session.guid_ms ELSE session.user_id)
        stored == IF session.guid_ms = NoGuid /\ session.token_type = "azure"
                  THEN session.user_id ELSE session.guid_ms
    IN  /\ clock < MaxOps
        /\ clock' = clock + 1
        /\ IF key = ""
           THEN /\ resp' = UserResp("sync_user", 0, NULL)
                /\ UNCHANGED <<dms_users, user_guid>>
           ELSE /\ dms_users' = dms_users \cup {key}
                /\ user_guid' = (key :> stored) @@ user_guid
                /\ resp' = UserResp("sync_user", 0, key)
        /\ UNCHANGED <<documents, edges, entities, objects, audit_downloads>>

UpsertFromGraph == (\E g \in GraphUsers : upsert_user_from_graph(g)) /\ UNCHANGED <<replay, jwks, consumer>>

SyncUser == (\E s \in Sessions : sync_user_to_db(s)) /\ UNCHANGED <<replay, jwks, consumer>>

NextUsers == Ingest \/ Confirm \/ UpsertFromGraph \/ SyncUser

SpecUsers == Init /\ [][NextUsers]_vars

\* C32: every vertex of dms_users has a guid_ms, and sanitizing it gives the
\* vertex's key
C32_KeyIsSanitizedGuid ==
    \A u \in dms_users : u \in DOMAIN user_guid /\ sanitize_key(user_guid[u]) = u

(* ------------------------------------------------------------------ *)
(* Quality check (dry run)                                              *)
(* ------------------------------------------------------------------ *)

\* isRequired and dataType of the schema fields
FieldSpecs ==
    [s \in SchemaIds |->
        [k \in DOMAIN SchemaFields[s] |->
            CASE k = "title" -> [is_required |-> FALSE, data_type |-> "string"]
              [] k = "tutor" -> [is_required |-> TRUE, data_type |-> "json"]
              [] OTHER -> [is_required |-> FALSE, data_type |-> "json"]]]

\* report = {key, is_valid: True, warnings: [], actions: []}
NewReport(key) == [key |-> key, is_valid |-> TRUE, warnings |-> <<>>, actions |-> <<>>]

Warn(report, warning) == [report EXCEPT !.warnings = Append(@, warning)]

Act(report, action) == [report EXCEPT !.actions = Append(@, action)]

Invalid(report) == [report EXCEPT !.is_valid = FALSE]

\* validators.validate_entity_object
validate_entity_object(EN, US, value_dict, entity_type, report) ==
    LET entity_id == value_dict.id
        name == IF value_dict.name # NULL THEN value_dict.name ELSE value_dict.display_name
        collection == map_type_to_collection(entity_type)
        is_user == is_user_type(entity_type)
    IN  IF name = NULL /\ entity_id = NULL
        THEN Warn(Invalid(report), "no_name_no_id")
        ELSE IF entity_id # NULL
        THEN IF collection # NULL /\ ~VertexExists(documents, EN, US, Vid(collection, entity_id))
             THEN IF is_user
                  THEN Act(Warn(Invalid(report), "new_user_on_save"), "CREATE_USER")
                  ELSE Warn(Invalid(report), "entity_id_not_found")
             ELSE report
        ELSE IF ~is_user
        THEN Warn(Invalid(report), "entity_without_id")
        ELSE Act(Warn(report, "new_user"), "CREATE_USER")

\* ValidationService._validate_entity_object of the service module
legacy_validate_entity_object(EN, US, value_dict, entity_type, report) ==
    LET entity_id == value_dict.id
        name == IF value_dict.name # NULL THEN value_dict.name ELSE value_dict.display_name
        collection == map_type_to_collection(entity_type)
    IN  IF name = NULL
        THEN Warn(Invalid(report), "no_name")
        ELSE IF entity_id # NULL
        THEN IF collection # NULL /\ ~VertexExists(documents, EN, US, Vid(collection, entity_id))
             THEN IF entity_type \in {"user", "person"}
                  THEN Act(Warn(report, "new_user_on_save"), "CREATE_USER")
                  ELSE Act(Warn(report, "entity_id_not_found"), "CREATE_ENTITY")
             ELSE report
        ELSE Act(Warn(report, "new_record"), "CREATE_ENTITY")

\* "not value": None, an empty string or an empty dict
IsEmptyValue(item) ==
    \/ item.shape = "none"
    \/ item.shape = "scalar" /\ item.val \in {NULL, ""}

\* isinstance(value, dict); the dict itself is what the validator reads
IsDict(item) == item.shape \in {"bare", "wrap", "wrapobj"}

\* the report of one schema field: required, then the data type (the titles of
\* the schemas are strings; email and date fields do not occur in them)
field_report(EN, US, schema, key, input_data) ==
    LET value == IF key \in DOMAIN input_data THEN input_data[key] ELSE NullItem
        spec == FieldSpecs[schema][key]
        entity_type == SchemaFields[schema][key]
        report == NewReport(key)
    IN  IF spec.is_required /\ IsEmptyValue(value)
        THEN Warn(Invalid(report), "required_empty")
        ELSE IF ~IsEmptyValue(value) /\ spec.data_type = "json" /\ IsDict(value)
        THEN legacy_validate_entity_object(EN, US, value.top, entity_type, report)
        ELSE report

Weight(schema, key) == IF FieldSpecs[schema][key].is_required THEN 2 ELSE 1

RECURSIVE SumWeights(_, _)
SumWeights(schema, keys) ==
    IF keys = {} THEN 0
    ELSE LET k == CHOOSE x \in keys : TRUE
         IN  Weight(schema, k) + SumWeights(schema, keys \ {k})

\* the report, with the request it answers and the schema it was made against
QualityResp(doc_id, input_data, schema, code, is_ready, fields_report, earned, total) ==
    [op |-> "quality", caller |-> NULL, doc |-> doc_id, code |-> code, is_ready |-> is_ready,
     fields_report |-> fields_report, earned |-> earned, total |-> total,
     metadata |-> input_data, schema |-> schema]

\* ValidationService.dry_run_validation behind POST /{doc_id}/metadata/quality-check;
\* the router answers every exception with 500
dry_run_validation(doc_id, input_data) ==
    /\ clock < MaxOps
    /\ clock' = clock + 1
    /\ UNCHANGED db
    /\ IF doc_id \notin DOMAIN documents
       THEN resp' = QualityResp(doc_id, input_data, NULL, 500, FALSE, <<>>, 0, 0)
       ELSE LET schemas == get_schema_for_document(edges, doc_id)
            IN  IF schemas = {}
                THEN resp' = QualityResp(doc_id, input_data, NULL, 200, TRUE, <<>>, 0, 0)
                ELSE \E schema \in schemas :
                       LET keys == DOMAIN SchemaFields[schema]
                           reports == [k \in keys |->
                                          field_report(entities, dms_users, schema, k, input_data)]
                           valid == {k \in keys : reports[k].is_valid}
                       IN  resp' = QualityResp(doc_id, input_data, schema, 200, valid = keys,
                                               reports, SumWeights(schema, valid),
                                               SumWeights(schema, keys))

\* the objects and strings the clients submit for the tutor and career fields
QualityTutors ==
    { Bare([NoObj EXCEPT !.id = "u1", !.display_name = "Ana"]),
      Bare([NoObj EXCEPT !.id = "u9", !.display_name = "Ana"]),
      Bare([NoObj EXCEPT !.display_name = "Ana"]),
      Scalar("Juan Perez"),
      NullItem }

QualityCareers ==
    { Bare(Obj("e1", "TDI", "carrera")),
      Bare(Obj("e9", "Otra", "carrera")),
      Bare(Obj(NULL, "Nueva", "carrera")),
      Scalar("TDI") }

QualityRequests ==
    { [k \in {"title", "tutor", "career"} |->
          CASE k = "title" -> Scalar("t1") [] k = "tutor" -> t [] OTHER -> c] :
      t \in QualityTutors, c \in QualityCareers }

QualityCheck ==
    /\ \E d \in DocIds, p \in QualityRequests : dry_run_validation(d, p)
    /\ UNCHANGED <<replay, jwks, consumer>>

\* validate_entity_object called on one object, as the validator's unit test does
EntityTypes == {"user", "career", "faculty", "department", "entity"}

ValidateEntityObject ==
    /\ clock < MaxOps
    /\ clock' = clock + 1
    /\ \E item \in (QualityTutors \cup QualityCareers), entity_type \in EntityTypes :
         /\ IsDict(item)
         /\ resp' = [op |-> "validate_entity_object", caller |-> NULL, doc |-> NULL, code |-> 0,
                     value |-> item.top, entity_type |-> entity_type,
                     report |-> validate_entity_object(entities, dms_users, item.top,
                                                       entity_type, NewReport("field"))]
    /\ UNCHANGED <<db, replay, jwks, consumer>>

NextQuality == Ingest \/ QualityCheck \/ ValidateEntityObject

SpecQuality == Init /\ [][NextQuality]_vars

\* the entity types the organisational tree is made of
StructuralTypes == {"faculty", "career", "department", "entity"}

\* a submitted object without an id, or with an id that is not in entities
LacksKnownEntity(item) ==
    /\ IsDict(item)
    /\ (item.top.id = NULL \/ item.top.id \notin DOMAIN entities)

\* the step's answer is a quality report made against a schema
IsQualityReport == resp.op = "quality" /\ resp.code = 200 /\ resp.schema # NULL

\* C33: in a quality check no field report contains an action other than
\* CREATE_USER; a field of a structural entity type has no action at all, and
\* is reported invalid when its object has no id or an id absent from entities
C33_OnlyCreateUser ==
    IsQualityReport =>
        \A k \in DOMAIN resp.fields_report :
            LET report == resp.fields_report[k]
            IN  /\ Range(report.actions) \subseteq {"CREATE_USER"}
                /\ SchemaFields[resp.schema][k] \in StructuralTypes =>
                      /\ report.actions = <<>>
                      /\ LacksKnownEntity(resp.metadata[k]) => ~report.is_valid

\* a submitted value that is a non-empty string
IsRawString(item) == item.shape = "scalar" /\ ~IsEmptyValue(item)

\* C34: in a quality check a json field with an entity type whose submitted
\* value is a non-empty raw string is reported invalid with the warning about
\* the required entity/user structure, and the report is not ready
C34_RawStringForEntityFieldIsInvalid ==
    IsQualityReport =>
        \A k \in DOMAIN resp.fields_report :
            (/\ FieldSpecs[resp.schema][k].data_type = "json"
             /\ SchemaFields[resp.schema][k] # NULL
             /\ IsRawString(resp.metadata[k])) =>
                /\ ~resp.fields_report[k].is_valid
                /\ "needs_structure" \in Range(resp.fields_report[k].warnings)
                /\ ~resp.is_ready

(* ------------------------------------------------------------------ *)
(* JWKS cache                                                           *)
(* ------------------------------------------------------------------ *)

\* the lifetime of a cache entry, and the longest a fetch takes (the HTTP
\* client's timeout), in ticks of time(): 3600 s against 5 s
JWKS_TTL_SECONDS == 2

FetchTimeout == 1

\* cache_entry and now <= cache_entry["expires_at"]
is_fresh(entry, now) == entry.present /\ now <= entry.expires_at

\* a refresh that does not look at the cache again once it holds the lock
recheck_skipped(entry, now) == TRUE

\* the re-check inside the lock: must the keys be fetched
recheck_stale(entry, now) == ~is_fresh(entry, now)

\* what a failed fetch answers without looking for an old entry
unavailable_always(entry) == [code |-> 503, keys |-> 0]

\* except Exception: the old entry's keys when there is one, else 503
stale_or_unavailable(entry) ==
    IF entry.present THEN [code |-> 200, keys |-> entry.keys] ELSE [code |-> 503, keys |-> 0]

\* request p holds the lock of url: re-check, then return the cached keys or
\* start the fetch
inside_lock(J, p, url) ==
    LET entry == J.cache[url]
    IN  IF ~recheck_stale(entry, J.now)
        THEN [J EXCEPT !.lock[url] = 0,
                       !.req[p] = [@ EXCEPT !.pc = "done", !.url = url, !.code = 200,
                                            !.keys = entry.keys]]
        ELSE [J EXCEPT !.lock[url] = p,
                       !.fetches[url] = @ + 1,
                       !.req[p] = [@ EXCEPT !.pc = "fetching", !.url = url, !.entry = entry,
                                            !.now = J.now]]

\* _get_jwks_data up to its first suspension: the lock-free read, and, when the
\* lock is free, the lock taken at once
get_jwks_data(p, url) ==
    /\ jwks.req[p].pc = "idle"
    /\ jwks' = IF is_fresh(jwks.cache[url], jwks.now)
               THEN [jwks EXCEPT !.req[p] = [@ EXCEPT !.pc = "done", !.url = url, !.code = 200,
                                                      !.keys = jwks.cache[url].keys]]
               ELSE IF jwks.lock[url] = 0
               THEN inside_lock(jwks, p, url)
               ELSE [jwks EXCEPT !.req[p] = [@ EXCEPT !.pc = "waiting", !.url = url,
                                                      !.waited = TRUE]]

\* async with lock: a waiting request gets the lock that was released
acquire_jwks_lock(p) ==
    /\ jwks.req[p].pc = "waiting"
    /\ jwks.lock[jwks.req[p].url] = 0
    /\ jwks' = inside_lock(jwks, p, jwks.req[p].url)

\* await _fetch_jwks returns the key set or raises
fetch_jwks_returns(p, ok) ==
    LET r == jwks.req[p]
        url == r.url
        keys_data == jwks.fetches[url]
        failed == stale_or_unavailable(r.entry)
    IN  /\ r.pc = "fetching"
        /\ jwks' = IF ok
                   THEN [jwks EXCEPT !.cache[url] = [present |-> TRUE, keys |-> keys_data,
                                                     expires_at |-> r.now + JWKS_TTL_SECONDS],
                                     !.lock[url] = 0,
                                     !.last_ok[url] = TRUE,
                                     !.req[p] = [@ EXCEPT !.pc = "done", !.code = 200,
                                                          !.keys = keys_data]]
                   ELSE [jwks EXCEPT !.lock[url] = 0,
                                     !.last_ok[url] = FALSE,
                                     !.req[p] = [@ EXCEPT !.pc = "done", !.code = failed.code,
                                                          !.keys = failed.keys]]

JwksUnchanged == UNCHANGED <<db, clock, resp, replay, consumer>>

JwksCall == (\E p \in Reqs, url \in Urls : get_jwks_data(p, url)) /\ JwksUnchanged

JwksAcquire == (\E p \in Reqs : acquire_jwks_lock(p)) /\ JwksUnchanged

JwksFetch == (\E p \in Reqs, ok \in BOOLEAN : fetch_jwks_returns(p, ok)) /\ JwksUnchanged

\* time() advances: a fetch in flight ends within its timeout, and a request
\* whose lock was released runs before time moves on
JwksTick ==
    /\ jwks.now < MaxOps
    /\ \A p \in Reqs :
         /\ jwks.req[p].pc = "fetching" => jwks.now - jwks.req[p].now < FetchTimeout
         /\ jwks.req[p].pc = "waiting" => jwks.lock[jwks.req[p].url] # 0
    /\ jwks' = [jwks EXCEPT !.now = @ + 1]
    /\ JwksUnchanged

NextJwks == JwksCall \/ JwksAcquire \/ JwksFetch \/ JwksTick

SpecJwks == Init /\ [][NextJwks]_vars

\* a request waits only for a request of its own URL
NoCrossBlocking ==
    \A p \in Reqs :
        jwks.req[p].pc = "waiting" =>
            LET holder == jwks.lock[jwks.req[p].url]
            IN  holder # 0 => jwks.req[holder].url = jwks.req[p].url

\* C35: a request that found the entry of its URL missing or expired while
\* another request was fetching that URL, and that fetch succeeded, performs no
\* fetch of its own and returns the keys that fetch stored, as the fetching
\* request does; a request never waits for a request of another URL
C35_SingleFlightPerUrl ==
    [][ /\ \A p \in Reqs :
             (/\ jwks.req[p].pc = "waiting"
              /\ jwks'.req[p].pc # "waiting"
              /\ jwks.last_ok[jwks.req[p].url]) =>
                 /\ jwks'.req[p].pc = "done"
                 /\ jwks'.req[p].code = 200
                 /\ jwks'.req[p].keys = jwks.cache[jwks.req[p].url].keys
                 /\ jwks'.fetches = jwks.fetches
        /\ \A p \in Reqs :
             (/\ jwks.req[p].pc = "fetching"
              /\ jwks'.req[p].pc = "done"
              /\ jwks'.last_ok[jwks.req[p].url]) =>
                 /\ jwks'.req[p].code = 200
                 /\ jwks'.req[p].keys = jwks'.cache[jwks.req[p].url].keys
        /\ NoCrossBlocking' ]_vars

\* two requests of one URL are answered with the keys of the single fetch of
\* that URL, one of them after waiting, and a request of the other URL has
\* fetched its own keys
C35_Witness ==
    \E p, q, r \in Reqs :
        /\ p # q
        /\ jwks.req[p].pc = "done" /\ jwks.req[q].pc = "done" /\ jwks.req[r].pc = "done"
        /\ jwks.req[p].url = jwks.req[q].url /\ jwks.req[r].url # jwks.req[p].url
        /\ jwks.req[q].waited /\ ~jwks.req[p].waited
        /\ jwks.fetches[jwks.req[p].url] = 1
        /\ jwks.req[p].code = 200 /\ jwks.req[q].code = 200 /\ jwks.req[r].code = 200
        /\ jwks.req[p].keys = jwks.req[q].keys
        /\ jwks.req[p].keys = jwks.cache[jwks.req[p].url].keys

\* the step is a fetch of request p that failed
FetchFailedStep(p) ==
    /\ jwks.req[p].pc = "fetching"
    /\ jwks'.req[p].pc = "done"
    /\ ~jwks'.last_ok[jwks.req[p].url]

\* C36: when a fetch fails the cache is left as it was; the request returns the
\* keys of the entry cached for the URL when there is one, expired or not, and
\* fails with 503 when there is none
C36_FailedFetchServesStale ==
    [][ \A p \in Reqs :
          FetchFailedStep(p) =>
              /\ jwks'.cache = jwks.cache
              /\ IF jwks.cache[jwks.req[p].url].present
                 THEN /\ jwks'.req[p].code = 200
                      /\ jwks'.req[p].keys = jwks.cache[jwks.req[p].url].keys
                 ELSE jwks'.req[p].code = 503 ]_vars

\* one request was served the expired keys of its URL after a failed fetch,
\* another got 503 for a URL that was never cached
C36_Witness ==
    \E p, q \in Reqs :
        /\ jwks.req[p].pc = "done" /\ jwks.req[p].code = 200
        /\ ~jwks.last_ok[jwks.req[p].url]
        /\ jwks.cache[jwks.req[p].url].present
        /\ jwks.now > jwks.cache[jwks.req[p].url].expires_at
        /\ jwks.req[p].keys = jwks.cache[jwks.req[p].url].keys
        /\ jwks.req[q].pc = "done" /\ jwks.req[q].code = 503
        /\ ~jwks.cache[jwks.req[q].url].present

(* ------------------------------------------------------------------ *)
(* The consumer task and the shutdown                                   *)
(* ------------------------------------------------------------------ *)

\* the awaits of process_ocr_result: _validate_metadata_strict, _create_safe_edge
HandlerAwaits == {"validation", "edges"}

\* a handler whose awaits give control back to the event loop
suspends_at_every_await(point) == TRUE

\* the coroutines the handler awaits call the store synchronously and await
\* nothing themselves, so the task is never suspended inside the handler
suspends_at(point) == FALSE

\* finally: await consumer.stop()
enter_finally(c) == [c EXCEPT !.pc = "stopping", !.stop_calls = @ + 1]

StoresUnchanged == UNCHANGED <<db, clock, resp>>

\* lifespan start-up: asyncio.create_task(consume_ocr_finalized())
LifespanStart ==
    /\ consumer.pc = "none"
    /\ consumer' = [consumer EXCEPT !.pc = "created"]
    /\ StoresUnchanged
    /\ UNCHANGED <<replay, jwks>>

\* lifespan shutdown: consumer_task.cancel(), called while the task is suspended
LifespanShutdown ==
    /\ consumer.pc # "none"
    /\ ~consumer.cancel_requested
    /\ consumer' = [consumer EXCEPT !.cancel_requested = TRUE]
    /\ StoresUnchanged
    /\ UNCHANGED <<replay, jwks>>

\* one step of the task of consume_ocr_finalized, from one suspension to the
\* next; a requested cancellation is raised at the await the task is suspended at
ConsumerRun ==
    /\ UNCHANGED <<replay, jwks>>
    /\ CASE consumer.pc = "created" ->
              \* cancelled before its first step, the coroutine's body never runs
              /\ consumer' = IF consumer.cancel_requested
                             THEN [consumer EXCEPT !.pc = "done"]
                             ELSE [consumer EXCEPT !.pc = "starting", !.start_attempted = TRUE]
              /\ StoresUnchanged
         [] consumer.pc = "starting" ->
              \* await consumer.start(): cancelled, raised (except Exception), or started
              /\ \E started \in BOOLEAN :
                   consumer' = IF consumer.cancel_requested \/ ~started
                               THEN enter_finally(consumer)
                               ELSE [consumer EXCEPT !.pc = "polling"]
              /\ StoresUnchanged
         [] consumer.pc = "polling" ->
              IF consumer.cancel_requested
              THEN consumer' = enter_finally(consumer) /\ StoresUnchanged
              ELSE \/ \E m \in Messages :
                        \/ process_ocr_result(m, "none") /\ UNCHANGED consumer
                        \/ \E point \in HandlerAwaits :
                             /\ suspends_at(point)
                             /\ process_ocr_result(m, point)
                             /\ consumer' = enter_finally([consumer EXCEPT
                                                              !.cancel_requested = TRUE])
                   \* the iteration over the consumer raises
                   \/ consumer' = enter_finally(consumer) /\ StoresUnchanged
         [] consumer.pc = "stopping" ->
              \* consumer.stop() returns, raises, or is cancelled
              /\ consumer' = [consumer EXCEPT !.pc = "done"]
              /\ StoresUnchanged
         [] OTHER -> FALSE

NextShutdown == LifespanStart \/ LifespanShutdown \/ ConsumerRun

\* the event loop runs a task whose await was cancelled
SpecShutdown ==
    Init /\ [][NextShutdown]_vars /\ WF_vars(ConsumerRun /\ consumer.cancel_requested)

\* the last message handled ran to its end: its document is stored with the
\* edges the message names
LastMessageFullyWritten ==
    resp.op = "ingest" =>
        /\ resp.fault = "none"
        /\ resp.doc \in DOMAIN documents
        /\ resp.msg.schema_id # NULL =>
              Vid("meta_schemas", resp.msg.schema_id)
                  \in Outbound(edges, {Vid("documents", resp.doc)}, {"usa_esquema"})
        /\ resp.msg.context_entity_id # NULL =>
              Vid("entidades", resp.msg.context_entity_id)
                  \in Outbound(edges, {Vid("documents", resp.doc)}, {"pertenece_a"})

\* C37: a cancellation never stops a message half-way (the document of the
\* last message handled and its edges are all written); consumer.stop() is
\* never called twice, it has been called once when the task ends after start
\* was attempted, and once the shutdown has cancelled a task that attempted
\* start, stop() is eventually called
C37_CancelDrainsThenStops ==
    /\ [](LastMessageFullyWritten)
    /\ [](consumer.stop_calls <= 1)
    /\ []((consumer.pc = "done" /\ consumer.start_attempted) => consumer.stop_calls = 1)
    /\ ((consumer.cancel_requested /\ consumer.start_attempted) ~> (consumer.stop_calls = 1))

\* the shutdown cancelled the task while it waited for the next message, after
\* a message had been handled, and stop() was called
C37_Witness ==
    /\ consumer.cancel_requested
    /\ consumer.pc = "done"
    /\ consumer.stop_calls = 1
    /\ resp.op = "ingest"
    /\ \E e \in edges : e.coll = "pertenece_a" /\ e.from = Vid("documents", resp.doc)

\* ---------------------------------------------------------------------
\* Permission scopes when the key-value store is down
\* (core/security/permissions.py, core/security/auth.py _fallback_validation)
\* ---------------------------------------------------------------------

PermissionNames == {"documents.read", "documents.write"}

TeamIds == {"global", "t1"}

\* the permissions lists a team entry is drawn from
TeamPermissionLists == {{}, {"documents.read"}, PermissionNames}

\* teams maps: team id -> the permissions list of teams[t]
TeamsMaps == UNION { [ks -> TeamPermissionLists] : ks \in SUBSET TeamIds }

\* microservices_data = {} : no entry for this microservice
NoMsData == [present |-> FALSE, permissions |-> {}, teams |-> [t \in {} |-> {}]]

\* the dms_permissions sub-document of a dms_users record
StoredPermissions == [permissions : SUBSET PermissionNames, teams : TeamsMaps]

\* microservices_data.by_id[ms_id] as a session carries it
MsData(permissions, teams) == [present |-> TRUE, permissions |-> permissions, teams |-> teams]

AuthContext(team_ids, microservices_data) == [team_ids |-> team_ids, microservices_data |-> microservices_data]

\* _fallback_validation: the session starts with no teams and no
\* microservices_data; a local record adds team_ids = the keys of its teams
\* map and by_id[ms_id] = its permissions and teams.
fallback_validation(has_record, stored) ==
    IF has_record
    THEN AuthContext(DOMAIN stored.teams, MsData(stored.permissions, stored.teams))
    ELSE AuthContext({}, NoMsData)

\* the test of one team in the loop of _check_permissions_in_memory
has_perm(ms_data, team_id, permission) ==
    IF team_id = "global"
    THEN permission \in ms_data.permissions
    ELSE team_id \in DOMAIN ms_data.teams /\ permission \in ms_data.teams[team_id]

\* _check_permissions_in_memory: the loop runs over ctx.team_ids only
check_permissions_in_memory(ctx, permission) ==
    IF ~ctx.microservices_data.present
    THEN {}
    ELSE { (IF t = "global" THEN "*" ELSE t) :
             t \in { u \in ctx.team_ids : has_perm(ctx.microservices_data, u, permission) } }

\* get_permitted_scopes_logic: no teams -> [] before the store is asked;
\* the store answers per team (granted), or raises and the in-memory check runs
get_permitted_scopes_logic(permission, ctx, kv_up, granted) ==
    IF ctx.team_ids = {}
    THEN {}
    ELSE IF kv_up
         THEN { (IF t = "global" THEN "*" ELSE t) : t \in ctx.team_ids \cap granted }
         ELSE check_permissions_in_memory(ctx, permission)

ScopesResp(via, ctx, permission, kv_up, scopes) ==
    [op |-> "scopes", caller |-> NULL, doc |-> NULL, code |-> 200, via |-> via,
     team_ids |-> ctx.team_ids, ms_data |-> ctx.microservices_data,
     permission |-> permission, kv_up |-> kv_up, scopes |-> scopes]

\* a caller whose session is not in the key-value store: get_auth_context
\* falls back to the token's signature, then RequirePermission runs
FallbackScopes ==
    \E has_record \in BOOLEAN, stored \in StoredPermissions, permission \in PermissionNames :
        LET ctx == fallback_validation(has_record, stored)
        IN  /\ resp' = ScopesResp("fallback", ctx, permission, FALSE,
                                  get_permitted_scopes_logic(permission, ctx, FALSE, {}))
            /\ UNCHANGED <<db, clock, replay, jwks, consumer>>

\* a caller whose session was read from the key-value store; the store may
\* fail afterwards, when RequirePermission asks it
SessionScopes ==
    \E team_ids \in SUBSET TeamIds, stored \in StoredPermissions, permission \in PermissionNames,
       kv_up \in BOOLEAN :
        \E granted \in (IF kv_up THEN SUBSET team_ids ELSE {{}}) :
            LET ctx == AuthContext(team_ids, MsData(stored.permissions, stored.teams))
            IN  /\ resp' = ScopesResp("session", ctx, permission, kv_up,
                                      get_permitted_scopes_logic(permission, ctx, kv_up, granted))
                /\ UNCHANGED <<db, clock, replay, jwks, consumer>>

NextPermissions == FallbackScopes \/ SessionScopes

SpecPermissions == Init /\ [][NextPermissions]_vars

IsFallbackScopes == resp.op = "scopes" /\ ~resp.kv_up /\ resp.ms_data.present

\* C38: with the key-value store down, the scopes computed from
\* microservices_data.by_id[microservice] contain "*" whenever the permission
\* is in the top-level permissions list and contain team t whenever the
\* permission is in teams[t].permissions.
C38_FallbackScopes ==
    IsFallbackScopes =>
        /\ (resp.permission \in resp.ms_data.permissions => "*" \in resp.scopes)
        /\ \A t \in DOMAIN resp.ms_data.teams :
               resp.permission \in resp.ms_data.teams[t] => t \in resp.scopes

\* ---------------------------------------------------------------------
\* Resolving a user from a name alone
\* (ocr_updates/pipeline/user_lookup.py, validation/users_service.py)
\* ---------------------------------------------------------------------

\* names as sequences of characters, of one or two words
RawNames == { <<"a", "n", " ", "u", "a">>, <<"a", "n", "u">>, <<"a", "n">> }

\* the users a directory may hold: id, displayName, givenName, surname
Directory ==
    { [id |-> <<"a", "1">>, displayName |-> <<"A", "n", " ", "U", "a">>, givenName |-> <<"A", "n">>, surname |-> <<"U", "a">>],
      [id |-> <<"a", "2">>, displayName |-> <<"a", "n", "u">>, givenName |-> <<"a", "n", "u">>, surname |-> <<"x">>],
      [id |-> <<"a", "3">>, displayName |-> <<"x", "y", " ", "u", "a">>, givenName |-> <<"x", "y">>, surname |-> <<"u", "a">>],
      [id |-> <<"u", "3">>, displayName |-> <<"x", "y", " ", "x", "y">>, givenName |-> <<"x", "y">>, surname |-> <<"x", "y">>] }

\* str.lower()
LowerSeq(s) == [i \in DOMAIN s |-> Lower(s[i])]

SpacePos(s) == { i \in DOMAIN s : s[i] = " " }

\* build_search_terms: parts.first, parts.last (the first and the last word)
\* and parts.first2 (the first two words, when there are two)
first_word(s) == IF SpacePos(s) = {} THEN s ELSE SubSeq(s, 1, (CHOOSE i \in SpacePos(s) : \A j \in SpacePos(s) : i <= j) - 1)

last_word(s) == IF SpacePos(s) = {} THEN s ELSE SubSeq(s, (CHOOSE i \in SpacePos(s) : \A j \in SpacePos(s) : i >= j) + 1, Len(s))

\* startsWith of the directory's $filter, which ignores case
StartsWith(s, prefix) == Len(prefix) <= Len(s) /\ LowerSeq(SubSeq(s, 1, Len(prefix))) = LowerSeq(prefix)

\* _build_filter for a name without an email
build_filter(u, raw) ==
    \/ StartsWith(u.displayName, first_word(raw))
    \/ StartsWith(u.givenName, first_word(raw))
    \/ SpacePos(raw) # {} /\ StartsWith(u.displayName, raw)
    \/ StartsWith(u.displayName, last_word(raw))
    \/ StartsWith(u.surname, last_word(raw))

\* what search_users_optimized can return for a name: the users of the
\* directory that pass the filter, those the directory holds, in its order
CandidateLists(raw) ==
    LET matching == { u \in Directory : build_filter(u, raw) }
    IN  { cs \in UNION { [1..n -> matching] : n \in 0..Cardinality(matching) } :
            \A i, j \in DOMAIN cs : i # j => cs[i] # cs[j] }

\* SequenceMatcher.find_longest_match: the longest common block, of those the
\* one that starts earliest in a, of those the one that starts earliest in b
CommonBlocks(a, b) ==
    { blk \in (1..Len(a)) \X (1..Len(b)) \X (1..Len(a)) :
        /\ blk[1] + blk[3] - 1 <= Len(a)
        /\ blk[2] + blk[3] - 1 <= Len(b)
        /\ SubSeq(a, blk[1], blk[1] + blk[3] - 1) = SubSeq(b, blk[2], blk[2] + blk[3] - 1) }

find_longest_match(a, b) ==
    CHOOSE blk \in CommonBlocks(a, b) :
        \A o \in CommonBlocks(a, b) :
            \/ o[3] < blk[3]
            \/ o[3] = blk[3] /\ o[1] > blk[1]
            \/ o[3] = blk[3] /\ o[1] = blk[1] /\ o[2] >= blk[2]

\* SequenceMatcher.get_matching_blocks, summed: the longest block, then the
\* same to its left and to its right
RECURSIVE matching_chars(_, _)
matching_chars(a, b) ==
    IF CommonBlocks(a, b) = {} THEN 0
    ELSE LET blk == find_longest_match(a, b)
         IN  blk[3]
             + matching_chars(SubSeq(a, 1, blk[1] - 1), SubSeq(b, 1, blk[2] - 1))
             + matching_chars(SubSeq(a, blk[1] + blk[3], Len(a)), SubSeq(b, blk[2] + blk[3], Len(b)))

\* a ratio 2*M/T as the pair of its numerator and denominator
ZeroScore == [num |-> 0, den |-> 1]

\* calculate_similarity: 0.0 for an empty string, else ratio() of the lowered strings
calculate_similarity(a, b) ==
    IF a = <<>> \/ b = <<>> THEN ZeroScore
    ELSE [num |-> 2 * matching_chars(LowerSeq(a), LowerSeq(b)), den |-> Len(a) + Len(b)]

ScoreGreater(s, t) == s.num * t.den > t.num * s.den

ScoreMax(s, t) == IF ScoreGreater(t, s) THEN t ELSE s

\* SIMILARITY_THRESHOLD = 0.75
ThresholdNum == 3

ThresholdDen == 4

AtLeastThreshold(s) == s.num * ThresholdDen >= ThresholdNum * s.den

\* the score of one candidate: displayName, or givenName + " " + surname
candidate_score(raw_text, cand) ==
    ScoreMax(calculate_similarity(raw_text, cand.displayName),
             calculate_similarity(raw_text, cand.givenName \o <<" ">> \o cand.surname))

\* the loop over the candidates: a candidate replaces the best one only with
\* a strictly greater score
RECURSIVE best_of(_, _, _)
best_of(raw_text, candidates, best) ==
    IF candidates = <<>> THEN best
    ELSE LET score == candidate_score(raw_text, Head(candidates))
         IN  best_of(raw_text, Tail(candidates),
                     IF ScoreGreater(score, best.score)
                     THEN [found |-> TRUE, cand |-> Head(candidates), score |-> score]
                     ELSE best)

NoBest == [found |-> FALSE, cand |-> CHOOSE d \in Directory : TRUE, score |-> ZeroScore]

\* build_search_terms: a cleaned name shorter than three characters gives no parts
has_parts(raw) == Len(raw) >= 3

\* lookup_user_in_microsoft_graph for a text without an email: nothing for a
\* text under four characters or without candidates; the best candidate is
\* accepted at or above the threshold
lookup_user_in_microsoft_graph(raw_text, candidates) ==
    IF Len(raw_text) < 4 \/ candidates = <<>>
    THEN NoBest
    ELSE LET best == best_of(raw_text, candidates, NoBest)
         IN  IF best.found /\ AtLeastThreshold(best.score) THEN best ELSE NoBest

\* UsersService._find_in_graph with a display name and no email: the candidate
\* whose displayName equals the name (lowered), else the first candidate
find_in_graph(display_name, candidates) ==
    IF ~has_parts(display_name) \/ candidates = <<>>
    THEN NoBest
    ELSE LET exact == { i \in DOMAIN candidates :
                          LowerSeq(candidates[i].displayName) = LowerSeq(display_name) }
             pick == IF exact # {} THEN CHOOSE i \in exact : \A j \in exact : i <= j ELSE 1
         IN  [found |-> TRUE, cand |-> candidates[pick],
              score |-> candidate_score(display_name, candidates[pick])]

NameResp(op, raw_text, candidates, found, key) ==
    [op |-> op, caller |-> NULL, doc |-> key, code |-> 0, raw_text |-> raw_text,
     candidates |-> candidates, found |-> found]

\* the outcome of a resolution: the user found is upserted under the key of
\* its id (upsert_user_from_graph) and returned, else None and nothing written
resolve_by_name(op, raw_text, candidates, res) ==
    /\ clock < MaxOps
    /\ clock' = clock + 1
    /\ IF res.found
       THEN LET key == safe_key_from_guid(res.cand.id)
            IN  /\ dms_users' = dms_users \cup {key}
                /\ user_guid' = (key :> res.cand.id) @@ user_guid
                /\ resp' = NameResp(op, raw_text, candidates, TRUE, key)
       ELSE /\ resp' = NameResp(op, raw_text, candidates, FALSE, NULL)
            /\ UNCHANGED <<dms_users, user_guid>>
    /\ UNCHANGED <<documents, edges, entities, objects, audit_downloads, replay, jwks, consumer>>

\* the ingestion path: a name read by the OCR
LookupUserByName ==
    \E raw_text \in RawNames : \E candidates \in CandidateLists(raw_text) :
        resolve_by_name("lookup_user", raw_text, candidates,
                        lookup_user_in_microsoft_graph(raw_text, candidates))

\* the confirmation path: find_or_create_user with a display name only, the
\* service holding a directory client; no local user matches a null guid and email
FindOrCreateUserByName ==
    \E display_name \in RawNames : \E candidates \in CandidateLists(display_name) :
        resolve_by_name("find_or_create_user", display_name, candidates,
                        find_in_graph(display_name, candidates))

NextNames == LookupUserByName \/ FindOrCreateUserByName

SpecNames == Init /\ [][NextNames]_vars

\* the greatest similarity of a text to any of the candidates
RECURSIVE MaxScore(_, _)
MaxScore(raw_text, candidates) ==
    IF candidates = <<>> THEN ZeroScore
    ELSE ScoreMax(candidate_score(raw_text, Head(candidates)), MaxScore(raw_text, Tail(candidates)))

NameStep == resp'.op \in {"lookup_user", "find_or_create_user"} /\ clock' = clock + 1

\* C39: resolving a user from a name alone accepts a directory candidate only
\* if the best similarity score is at least 0.75; otherwise it returns null
\* and upserts no user; on the ingestion path and on the confirmation path.
C39_NameOnlyThreshold ==
    [][ NameStep =>
          /\ resp'.found => AtLeastThreshold(MaxScore(resp'.raw_text, resp'.candidates))
          /\ ~AtLeastThreshold(MaxScore(resp'.raw_text, resp'.candidates)) =>
                 /\ ~resp'.found
                 /\ resp'.doc = NULL
                 /\ dms_users' = dms_users
                 /\ user_guid' = user_guid ]_vars

(* ------------------------------------------------------------------ *)
(* Locked, confirmed, signed                                            *)
(* ------------------------------------------------------------------ *)

\* an integrity block with a manifest and a manifest_signature
HasIntegrity(doc) == doc.integrity.manifest # NoManifest /\ doc.integrity.manifest_signature # <<>>

\* C40: in every reachable state, every document is locked if and only if its
\* status is confirmed, and every confirmed document carries an integrity
\* block with a manifest and a manifest_signature and has confirmed_by equal
\* to the id of its owner.
C40_LockedIffConfirmedAndSigned ==
    \A d \in DOMAIN documents :
        /\ documents[d].is_locked <=> documents[d].status = "confirmed"
        /\ documents[d].status = "confirmed" =>
               /\ HasIntegrity(documents[d])
               /\ documents[d].confirmed_by = documents[d].owner

====
